---------------------------- MODULE Spec2Model ----------------------------
(***************************************************************************)
(* Model of the invoice extraction pipeline of                             *)
(* extraction-api-0.0.1/invoice_agent/extraction.py: the langgraph stage   *)
(* chain parse_message -> identify_supplier -> extract_country_codes ->    *)
(* extract_invoice_data | extract_invoice_data_image -> merge_invoice_data *)
(* -> prepare_response, the terminal handle_error, and the drivers         *)
(* process_invoice and process_main around it.                             *)
(*                                                                         *)
(* Python data is represented as follows.                                  *)
(*   - a str that carries document data is a sequence of one-character     *)
(*     strings (a currency sign is one character token such as "EURO");    *)
(*   - a scalar value is a record [t, s, m, e]: t is "none", "str", "int"  *)
(*     or "float"; s the characters of a str; m and e the decimal mantissa *)
(*     and number of decimals of a number (1234.56 is m = 123456, e = 2);  *)
(*   - a dict is a function from its keys; an insertion-ordered dict whose *)
(*     order the code depends on is a sequence of records;                 *)
(*   - status codes, stage names and error messages are TLA+ strings.      *)
(***************************************************************************)
EXTENDS Integers, Sequences, FiniteSets, TLC

(***************************************************************************)
(* Bounds of the model.                                                    *)
(***************************************************************************)
\* pages of the stored document
MaxPages == 2

(***************************************************************************)
(* Scalar values.                                                          *)
(***************************************************************************)
None == [t |-> "none", s |-> <<>>, m |-> 0, e |-> 0]

Str(cs) == [t |-> "str", s |-> cs, m |-> 0, e |-> 0]

PyInt(n) == [t |-> "int", s |-> <<>>, m |-> n, e |-> 0]

RECURSIVE NormFloat(_, _)
\* a float is kept with its trailing decimal zeros removed: 1.50 = 1.5
NormFloat(m, e) ==
    IF e > 0 /\ m % 10 = 0 THEN NormFloat(m \div 10, e - 1)
    ELSE [t |-> "float", s |-> <<>>, m |-> m, e |-> e]

PyFloat(m, e) == NormFloat(m, e)

\* Python truthiness of a scalar: None, "", 0 and 0.0 are falsy
Truthy(v) ==
    CASE v.t = "none" -> FALSE
      [] v.t = "str" -> v.s # <<>>
      [] OTHER -> v.m # 0

IsStr(v) == v.t = "str"

(***************************************************************************)
(* Dicts and sequences.                                                    *)
(***************************************************************************)
EmptyDict == <<>>

\* d[k] = v
Put(d, k, v) == [x \in (DOMAIN d) \cup {k} |-> IF x = k THEN v ELSE d[x]]

\* d.get(k)
Get(d, k) == IF k \in DOMAIN d THEN d[k] ELSE None

\* {k: v for k, v in d.items() if k in keep}
Restrict(d, keep) == [x \in (DOMAIN d) \cap keep |-> d[x]]

Range(sq) == {sq[i] : i \in DOMAIN sq}

RECURSIVE SeqMap(_, _)
SeqMap(Op(_), sq) ==
    IF sq = <<>> THEN <<>> ELSE <<Op(Head(sq))>> \o SeqMap(Op, Tail(sq))

RECURSIVE SeqFilter(_, _)
SeqFilter(Keep(_), sq) ==
    IF sq = <<>> THEN <<>>
    ELSE (IF Keep(Head(sq)) THEN <<Head(sq)>> ELSE <<>>) \o SeqFilter(Keep, Tail(sq))

(***************************************************************************)
(* Character strings.                                                      *)
(***************************************************************************)
Digits == {"0", "1", "2", "3", "4", "5", "6", "7", "8", "9"}

DigitVal(c) ==
    CASE c = "0" -> 0 [] c = "1" -> 1 [] c = "2" -> 2 [] c = "3" -> 3
      [] c = "4" -> 4 [] c = "5" -> 5 [] c = "6" -> 6 [] c = "7" -> 7
      [] c = "8" -> 8 [] OTHER -> 9

DigitChar(n) ==
    CASE n = 0 -> "0" [] n = 1 -> "1" [] n = 2 -> "2" [] n = 3 -> "3"
      [] n = 4 -> "4" [] n = 5 -> "5" [] n = 6 -> "6" [] n = 7 -> "7"
      [] n = 8 -> "8" [] OTHER -> "9"

\* the upper-case letters of the model's alphabet ([A-Z] of the currency pattern)
UpperLetters ==
    {"A", "B", "C", "D", "E", "F", "G", "H", "I", "J", "K", "L", "M", "N", "O",
     "P", "Q", "R", "S", "T", "U", "V", "W", "X", "Y", "Z"}

\* the currency signs [$ EURO POUND YEN] of the currency pattern
CurrencySigns == {"$", "EURO", "POUND", "YEN"}

HasChar(cs, c) == \E i \in DOMAIN cs : cs[i] = c

RemoveChar(cs, c) == SeqFilter(LAMBDA x : x # c, cs)

ReplaceChar(cs, c, d) == SeqMap(LAMBDA x : IF x = c THEN d ELSE x, cs)

RECURSIVE LStrip(_)
LStrip(cs) == IF cs # <<>> /\ Head(cs) = " " THEN LStrip(Tail(cs)) ELSE cs

RECURSIVE RStrip(_)
RStrip(cs) ==
    IF cs # <<>> /\ cs[Len(cs)] = " " THEN RStrip(SubSeq(cs, 1, Len(cs) - 1)) ELSE cs

\* str.strip()
Strip(cs) == RStrip(LStrip(cs))

RECURSIVE SplitOn(_, _)
\* str.split(c): the pieces between the occurrences of c (always at least one piece)
SplitOn(cs, c) ==
    IF ~HasChar(cs, c) THEN <<cs>>
    ELSE LET i == CHOOSE j \in DOMAIN cs : cs[j] = c /\ \A k \in 1..(j - 1) : cs[k] # c
         IN <<SubSeq(cs, 1, i - 1)>> \o SplitOn(SubSeq(cs, i + 1, Len(cs)), c)

RECURSIVE DigitsVal(_)
\* the value of a non-empty string of digits
DigitsVal(cs) ==
    IF cs = <<>> THEN 0 ELSE DigitsVal(SubSeq(cs, 1, Len(cs) - 1)) * 10 + DigitVal(cs[Len(cs)])

AllDigits(cs) == cs # <<>> /\ \A i \in DOMAIN cs : cs[i] \in Digits

RECURSIVE StrOfNat(_)
\* str(n) for n >= 0
StrOfNat(n) == IF n < 10 THEN <<DigitChar(n)>> ELSE StrOfNat(n \div 10) \o <<DigitChar(n % 10)>>

\* the body of a numeral after an optional sign
Unsigned(cs) == IF cs # <<>> /\ cs[1] \in {"+", "-"} THEN Tail(cs) ELSE cs

SignOf(cs) == IF cs # <<>> /\ cs[1] = "-" THEN -1 ELSE 1

\* int(cs) succeeds: surrounding blanks, an optional sign, digits
IntParses(cs) == AllDigits(Unsigned(Strip(cs)))

IntValue(cs) == SignOf(Strip(cs)) * DigitsVal(Unsigned(Strip(cs)))

\* the pieces of a numeral around its periods, sign and blanks removed
FloatParts(cs) == SplitOn(Unsigned(Strip(cs)), ".")

FloatPartsOk(parts) ==
    /\ Len(parts) \in {1, 2}
    /\ \A i \in DOMAIN parts : parts[i] = <<>> \/ AllDigits(parts[i])
    /\ \E i \in DOMAIN parts : parts[i] # <<>>

\* float(cs) succeeds: surrounding blanks, an optional sign, digits with at
\* most one period and at least one digit (exponents, "inf" and "nan" are not
\* written with the characters the model draws numerals from)
FloatParses(cs) == FloatPartsOk(FloatParts(cs))

FloatOf(sign, whole, frac) == PyFloat(sign * DigitsVal(whole \o frac), Len(frac))

FloatOfParts(sign, parts) ==
    FloatOf(sign, parts[1], IF Len(parts) = 2 THEN parts[2] ELSE <<>>)

FloatValue(cs) == FloatOfParts(SignOf(Strip(cs)), FloatParts(cs))

(***************************************************************************)
(* clean_numeric_values and its helper parse_monetary_value.               *)
(***************************************************************************)
\* re.search(r'[\d.,\s]', value)
LooksNumeric(cs) == \E i \in DOMAIN cs : cs[i] \in Digits \cup {".", ",", " "}

\* a match of the currency pattern ([$ EURO POUND YEN]|[A-Z]{3}) starts at i
SignAt(cs, i) == cs[i] \in CurrencySigns

CodeAt(cs, i) == i + 2 <= Len(cs) /\ \A k \in i..(i + 2) : cs[k] \in UpperLetters

RECURSIVE FirstCurrency(_, _)
\* re.search(currency_pattern, value).group(0), or <<>> when nothing matches
FirstCurrency(cs, i) ==
    IF i > Len(cs) THEN <<>>
    ELSE IF SignAt(cs, i) THEN <<cs[i]>>
    ELSE IF CodeAt(cs, i) THEN SubSeq(cs, i, i + 2)
    ELSE FirstCurrency(cs, i + 1)

RECURSIVE RemoveCurrency(_, _)
\* re.sub(currency_pattern, '', value): every non-overlapping match removed
RemoveCurrency(cs, i) ==
    IF i > Len(cs) THEN <<>>
    ELSE IF SignAt(cs, i) THEN RemoveCurrency(cs, i + 1)
    ELSE IF CodeAt(cs, i) THEN RemoveCurrency(cs, i + 3)
    ELSE <<cs[i]>> \o RemoveCurrency(cs, i + 1)

\* the numeric branch of parse_monetary_value chosen by the separators present
SeparatorCase(c, p, b) ==
    CASE c /\ p -> 1
      [] b /\ c /\ ~p -> 2
      [] c /\ ~p /\ ~b -> 3
      [] p /\ ~c -> 4
      [] b /\ ~c /\ ~p -> 5
      [] OTHER -> 6

MonetaryCase(cleaned) ==
    SeparatorCase(HasChar(cleaned, ","), HasChar(cleaned, "."), HasChar(cleaned, " "))

\* a preparation that would read every comma as a decimal separator
MonetaryPreparedEuropean(cleaned, k) == ReplaceChar(cleaned, ",", ".")

\* the string handed to float() or int() in branch k
MonetaryPrepared(cleaned, k) ==
    CASE k = 1 -> RemoveChar(cleaned, ",")
      [] k = 2 -> ReplaceChar(RemoveChar(cleaned, " "), ",", ".")
      [] k = 3 -> ReplaceChar(cleaned, ",", ".")
      [] k = 4 -> cleaned
      [] k = 5 -> RemoveChar(cleaned, " ")
      [] OTHER -> cleaned

\* float() in branches 1 to 4 and int() in the others; a ValueError gives back
\* the stripped string
ParsePrepared(value, k, prepared) ==
    IF k \in {1, 2, 3, 4}
    THEN (IF FloatParses(prepared) THEN FloatValue(prepared) ELSE Str(value))
    ELSE (IF IntParses(prepared) THEN PyInt(IntValue(prepared)) ELSE Str(value))

ParseCase(value, cleaned, k) == ParsePrepared(value, k, MonetaryPrepared(cleaned, k))

ParseCleaned(value, cleaned) == ParseCase(value, cleaned, MonetaryCase(cleaned))

CurrencyOf(cur) == IF cur = <<>> THEN None ELSE Str(cur)

\* value is the stripped string
ParseStripped(value) ==
    [value |-> ParseCleaned(value, Strip(RemoveCurrency(value, 1))),
     currency |-> CurrencyOf(FirstCurrency(value, 1))]

\* parse_monetary_value(value) -> (value, currency)
parse_monetary_value(v) ==
    IF ~IsStr(v) THEN [value |-> v, currency |-> None]
    ELSE IF ~LooksNumeric(v.s) THEN [value |-> v, currency |-> None]
    ELSE ParseStripped(Strip(v.s))

HeaderMoneyFields == <<"subtotal", "tax", "total">>

ItemMoneyFields == <<"quantity", "unit_price", "amount">>

\* 'currency' not in result or not result['currency']
CurrencyUnset(h) == "currency" \notin DOMAIN h \/ ~Truthy(h["currency"])

RECURSIVE FoldLeft(_, _, _)
\* a loop over sq that carries acc from one element to the next
FoldLeft(Op(_, _), acc, sq) ==
    IF sq = <<>> THEN acc ELSE FoldLeft(Op, Op(acc, Head(sq)), Tail(sq))

\* one numeric field f of the dict acc.d parsed to r; acc.cur is
\* result['currency'] so far (None while it is unset)
CleanedField(acc, f, r) ==
    [d |-> Put(acc.d, f, r.value),
     cur |-> IF ~Truthy(acc.cur) /\ Truthy(r.currency) THEN r.currency ELSE acc.cur]

CleanField(acc, f) ==
    IF f \in DOMAIN acc.d /\ IsStr(acc.d[f])
    THEN CleanedField(acc, f, parse_monetary_value(acc.d[f]))
    ELSE acc

\* the loop over the numeric fields of one dict
CleanFields(d, fields, cur) == FoldLeft(CleanField, [d |-> d, cur |-> cur], fields)

NormalizedItem(acc, r) == [items |-> Append(acc.items, r.d), cur |-> r.cur]

CleanItem(acc, item) == NormalizedItem(acc, CleanFields(item, ItemMoneyFields, acc.cur))

\* the loop over the line items; returns the items and result['currency']
CleanItems(items, cur) == FoldLeft(CleanItem, [items |-> <<>>, cur |-> cur], items)

CleanedAll(x, hr, ir) ==
    [h |-> IF CurrencyUnset(x.h) /\ Truthy(ir.cur)
           THEN Put(hr.d, "currency", ir.cur) ELSE hr.d,
     liKind |-> x.liKind, li |-> ir.items]

CleanedHeader(x, hr) ==
    CleanedAll(x, hr, IF x.liKind = "list" THEN CleanItems(x.li, hr.cur)
                      ELSE [items |-> x.li, cur |-> hr.cur])

\* clean_numeric_values(data_dict); an extraction dict is [h, liKind, li]:
\* its header keys, whether 'line_items' is absent, None or a list, and the list
clean_numeric_values(x) ==
    CleanedHeader(x, CleanFields(x.h, HeaderMoneyFields,
                                 IF CurrencyUnset(x.h) THEN None ELSE x.h["currency"]))

(***************************************************************************)
(* Page selection: the "pages" request field resolved against the          *)
(* document's page count (extract_invoice_data, extract_invoice_data_image)*)
(***************************************************************************)
AllSpec == <<"a", "l", "l">>

FirstSpec == <<"f", "i", "r", "s", "t">>

\* list(range(a, b + 1))
PyRange(a, b) == IF b < a THEN <<>> ELSE [i \in 1..(b - a + 1) |-> a + i - 1]

\* one comma-separated token raises ValueError
TokenFails(tok) ==
    IF HasChar(tok, "-")
    THEN LET parts == SplitOn(tok, "-")
         IN Len(parts) # 2 \/ \E i \in DOMAIN parts : ~IntParses(parts[i])
    ELSE ~IntParses(tok)

\* the pages one token contributes
TokenPages(tok) ==
    IF HasChar(tok, "-")
    THEN LET parts == SplitOn(tok, "-") IN PyRange(IntValue(parts[1]), IntValue(parts[2]))
    ELSE <<IntValue(tok)>>

RECURSIVE ExpandTokens(_)
ExpandTokens(toks) ==
    IF toks = <<>> THEN <<>> ELSE TokenPages(Head(toks)) \o ExpandTokens(Tail(toks))

\* the page numbers to process; fallback is what an empty selection or a
\* ValueError falls back to
PageNumbers(spec, total_pages, fallback) ==
    IF spec = FirstSpec THEN <<1>>
    ELSE IF spec = AllSpec THEN PyRange(1, total_pages)
    ELSE LET toks == SplitOn(spec, ",")
         IN IF \E i \in DOMAIN toks : TokenFails(toks[i]) THEN fallback
            ELSE LET valid == SeqFilter(LAMBDA q : 1 <= q /\ q <= total_pages,
                                        ExpandTokens(toks))
                 IN IF valid = <<>> THEN fallback ELSE valid

\* extract_invoice_data: an unusable selection means all pages
PageNumbersText(spec, total_pages) ==
    PageNumbers(spec, total_pages, PyRange(1, total_pages))

\* extract_invoice_data_image: an unusable selection means the first page
PageNumbersImage(spec, total_pages) == PageNumbers(spec, total_pages, <<1>>)

(***************************************************************************)
(* determine_region_fallback and its static country sets.                  *)
(***************************************************************************)
\* a North America set that would also claim a country of EMEA
na_countries_with_gb ==
    {<<"C", "A">>, <<"G", "B">>, <<"M", "X">>, <<"U", "S">>}

na_countries ==
    {<<"C", "A">>, <<"M", "X">>, <<"U", "S">>}

emea_countries ==
    {<<"A", "D">>, <<"A", "E">>, <<"A", "L">>, <<"A", "O">>, <<"A", "T">>,
     <<"B", "A">>, <<"B", "E">>, <<"B", "F">>, <<"B", "G">>, <<"B", "H">>,
     <<"B", "W">>, <<"B", "Y">>, <<"C", "D">>, <<"C", "F">>, <<"C", "G">>,
     <<"C", "H">>, <<"C", "I">>, <<"C", "M">>, <<"C", "V">>, <<"C", "Y">>,
     <<"C", "Z">>, <<"D", "E">>, <<"D", "J">>, <<"D", "K">>, <<"D", "Z">>,
     <<"E", "E">>, <<"E", "G">>, <<"E", "R">>, <<"E", "S">>, <<"E", "T">>,
     <<"F", "I">>, <<"F", "R">>, <<"G", "A">>, <<"G", "B">>, <<"G", "H">>,
     <<"G", "M">>, <<"G", "N">>, <<"G", "Q">>, <<"G", "R">>, <<"G", "W">>,
     <<"H", "R">>, <<"H", "U">>, <<"I", "E">>, <<"I", "L">>, <<"I", "Q">>,
     <<"I", "R">>, <<"I", "S">>, <<"I", "T">>, <<"J", "O">>, <<"K", "E">>,
     <<"K", "W">>, <<"L", "B">>, <<"L", "I">>, <<"L", "R">>, <<"L", "S">>,
     <<"L", "T">>, <<"L", "U">>, <<"L", "V">>, <<"L", "Y">>, <<"M", "A">>,
     <<"M", "C">>, <<"M", "D">>, <<"M", "E">>, <<"M", "G">>, <<"M", "K">>,
     <<"M", "L">>, <<"M", "R">>, <<"M", "T">>, <<"M", "W">>, <<"M", "Z">>,
     <<"N", "A">>, <<"N", "E">>, <<"N", "G">>, <<"N", "L">>, <<"N", "O">>,
     <<"O", "M">>, <<"P", "L">>, <<"P", "S">>, <<"P", "T">>, <<"Q", "A">>,
     <<"R", "O">>, <<"R", "S">>, <<"R", "U">>, <<"S", "A">>, <<"S", "D">>,
     <<"S", "E">>, <<"S", "I">>, <<"S", "K">>, <<"S", "L">>, <<"S", "M">>,
     <<"S", "N">>, <<"S", "O">>, <<"S", "T">>, <<"S", "Y">>, <<"S", "Z">>,
     <<"T", "D">>, <<"T", "N">>, <<"T", "R">>, <<"T", "Z">>, <<"U", "A">>,
     <<"U", "G">>, <<"V", "A">>, <<"X", "K">>, <<"Z", "A">>, <<"Z", "M">>,
     <<"Z", "W">>}

apac_countries ==
    {<<"A", "F">>, <<"A", "M">>, <<"A", "S">>, <<"A", "U">>, <<"A", "Z">>,
     <<"B", "D">>, <<"B", "N">>, <<"B", "T">>, <<"C", "K">>, <<"C", "N">>,
     <<"F", "J">>, <<"F", "M">>, <<"G", "E">>, <<"G", "U">>, <<"H", "K">>,
     <<"I", "D">>, <<"I", "N">>, <<"J", "P">>, <<"K", "G">>, <<"K", "H">>,
     <<"K", "I">>, <<"K", "P">>, <<"K", "R">>, <<"K", "Z">>, <<"L", "A">>,
     <<"L", "K">>, <<"M", "H">>, <<"M", "M">>, <<"M", "N">>, <<"M", "O">>,
     <<"M", "P">>, <<"M", "V">>, <<"M", "Y">>, <<"N", "C">>, <<"N", "P">>,
     <<"N", "R">>, <<"N", "U">>, <<"N", "Z">>, <<"P", "F">>, <<"P", "G">>,
     <<"P", "H">>, <<"P", "K">>, <<"P", "R">>, <<"P", "W">>, <<"S", "B">>,
     <<"S", "G">>, <<"T", "H">>, <<"T", "J">>, <<"T", "K">>, <<"T", "L">>,
     <<"T", "M">>, <<"T", "O">>, <<"T", "V">>, <<"T", "W">>, <<"U", "Z">>,
     <<"V", "I">>, <<"V", "N">>, <<"V", "U">>, <<"W", "S">>}

latam_countries ==
    {<<"A", "G">>, <<"A", "R">>, <<"B", "B">>, <<"B", "M">>, <<"B", "O">>,
     <<"B", "R">>, <<"B", "S">>, <<"B", "Z">>, <<"C", "L">>, <<"C", "O">>,
     <<"C", "R">>, <<"C", "U">>, <<"D", "M">>, <<"D", "O">>, <<"E", "C">>,
     <<"G", "D">>, <<"G", "F">>, <<"G", "T">>, <<"G", "Y">>, <<"H", "N">>,
     <<"H", "T">>, <<"J", "M">>, <<"K", "N">>, <<"L", "C">>, <<"N", "I">>,
     <<"P", "A">>, <<"P", "E">>, <<"P", "Y">>, <<"S", "R">>, <<"S", "V">>,
     <<"T", "T">>, <<"U", "Y">>, <<"V", "C">>, <<"V", "E">>}

UpperChar(c) ==
    CASE c = "u" -> "U" [] c = "s" -> "S" [] c = "d" -> "D" [] c = "e" -> "E"
      [] c = "b" -> "B" [] c = "r" -> "R" [] OTHER -> c

\* str.upper()
Upper(cs) == SeqMap(UpperChar, cs)

RegionStr(name) ==
    CASE name = "NA" -> <<"N", "A">>
      [] name = "EMEA" -> <<"E", "M", "E", "A">>
      [] name = "APAC" -> <<"A", "P", "A", "C">>
      [] name = "LATAM" -> <<"L", "A", "T", "A", "M">>
      [] OTHER -> <<"U", "N", "K", "N", "O", "W", "N">>

\* determine_region_fallback(country_code), country_code a str
determine_region_fallback(country_code) ==
    IF country_code = <<>> THEN RegionStr("UNKNOWN")
    ELSE LET code == Upper(country_code)
         IN IF code \in na_countries THEN RegionStr("NA")
            ELSE IF code \in emea_countries THEN RegionStr("EMEA")
            ELSE IF code \in apac_countries THEN RegionStr("APAC")
            ELSE IF code \in latam_countries THEN RegionStr("LATAM")
            ELSE RegionStr("UNKNOWN")

(***************************************************************************)
(* The request and the pipeline state (AgentState).                        *)
(*                                                                         *)
(* A request is the text handed to process_main, given by what json.loads  *)
(* makes of it: json is "malformed" (JSONDecodeError), "scalar" (valid     *)
(* JSON that is no object) or "object"; an absent field of the object is   *)
(* "" (a name) or None (a value).  invoice_path is [kind, name]: kind      *)
(* "absent", "str", "null" (JSON null) or "other" (a JSON number, ...).    *)
(*                                                                         *)
(* An AgentState key that is not set holds "" (names), None (values), <<>> *)
(* (collections) or a record whose present field is FALSE.                 *)
(***************************************************************************)
NoPath == [kind |-> "absent", name |-> ""]

PathOf(name) == [kind |-> "str", name |-> name]

NonStrPath == [kind |-> "other", name |-> "5"]

NullPath == [kind |-> "null", name |-> ""]

\* bool(invoice_path)
PathTruthy(path) == path.kind = "other" \/ (path.kind = "str" /\ path.name # "")

\* os.path.splitext(invoice_path)[1].lower() of the paths the model stores
FileExt(name) ==
    CASE name = "inv.pdf" -> ".pdf"
      [] name = "SCAN.PDF" -> ".pdf"
      [] name = "scan.png" -> ".png"
      [] OTHER -> ".txt"

ImageExts == {".jpg", ".jpeg", ".png", ".tiff", ".bmp", ".gif"}

NoSchema == [present |-> FALSE, props |-> {}, items |-> {}]

\* a merged invoice: its header keys, its line items and its _page_tracking
NoInvoice == [present |-> FALSE, h |-> EmptyDict, li |-> <<>>, pages |-> <<>>, method |-> ""]

\* the "output" key: status "" stands for no output; invoices are [h, li, calc],
\* tracking is page_tracking.invoice_to_pages, counts page_line_item_counts
NoOutput == [status |-> "", error |-> "", invoices |-> <<>>, multi |-> FALSE,
             extraction_method |-> "", processing_method |-> "",
             tracking |-> <<>>, counts |-> <<>>]

\* initial_state of process_invoice
InitialState(request) ==
    [ input |-> request,
      id |-> request.transaction_id,
      thread_id |-> "uuid4",
      status |-> "new",
      error |-> "",
      invoice_path |-> NoPath,
      processing_method |-> "",
      processing_level |-> "",
      processing_max_pages |-> 0,
      pages |-> None,
      supplier_name |-> None,
      brand_name |-> None,
      supplier_address |-> None,
      buyer_address |-> None,
      ship_to_address |-> None,
      supplier_country_code |-> None,
      buyer_country_code |-> None,
      ship_to_country_code |-> None,
      region |-> None,
      extraction_method |-> "",
      invoice_collections |-> <<>>,
      invoice_schema |-> NoSchema,
      invoice_data |-> NoInvoice,
      all_invoices |-> <<>>,
      output |-> NoOutput ]

\* what a node hands back to the graph: the updated state, the node to go
\* to ("raised" when an exception leaves the node), the LLM calls issued and
\* the store writes attempted, in order
Result(ctx, goto, calls, writes) ==
    [ctx |-> ctx, goto |-> goto, calls |-> calls, writes |-> writes]

\* Command(update={"status": "error", "error": msg}, goto="handle_error")
Fail(ctx, msg, calls, writes) ==
    Result([ctx EXCEPT !.status = "error", !.error = msg], "handle_error", calls, writes)

\* a short circuit that would also rewrite the error message
BailRewriting(ctx) ==
    Result([ctx EXCEPT !.error = "Stage skipped"], "handle_error", <<>>, <<>>)

\* Command(goto="handle_error")
Bail(ctx) == Result(ctx, "handle_error", <<>>, <<>>)

\* an exception leaves the node: the state keeps the last checkpoint
Raise(ctx, calls, writes) == Result(ctx, "raised", calls, writes)

\* one LLM call: what it asks for, the invoice and pages it is about, the id of
\* the answer it received ("" where the model does not name the answer)
Call(kind, inv, pages) == [kind |-> kind, inv |-> inv, pages |-> pages, resp |-> ""]

CallR(kind, inv, pages, resp) == [kind |-> kind, inv |-> inv, pages |-> pages, resp |-> resp]

\* one status write attempted on the store: its status, the id it is keyed by
\* and what the store did ("ok", "fail": reports failure, "raise")
Write(kind, key, db) == [kind |-> kind, key |-> key, db |-> db]

(***************************************************************************)
(* parse_message                                                           *)
(***************************************************************************)
\* message_data.get("processing_max_pages", 0), replaced by 0 unless an int >= 0
MaxPagesOf(v) == IF v.t = "int" /\ v.m >= 0 THEN v.m ELSE 0

LevelOf(level) == IF level \in {"page", "invoice"} THEN level ELSE "page"

MethodOf(method) == IF method = "" THEN "text" ELSE method

PagesOf(v) == IF v.t = "none" THEN Str(AllSpec) ELSE v

parse_message(ctx) ==
    LET msg == ctx.input
    IN IF msg.json = "malformed"
       THEN Fail(ctx, "Failed to parse JSON message", <<>>, <<>>)
       ELSE IF msg.json = "scalar" THEN Raise(ctx, <<>>, <<>>)
       ELSE IF ~PathTruthy(msg.invoice_path)
       THEN Fail(ctx, "Missing invoice_path in message", <<>>, <<>>)
       ELSE Result([ctx EXCEPT !.invoice_path = msg.invoice_path,
                               !.processing_method = MethodOf(msg.processing_method),
                               !.pages = PagesOf(msg.pages),
                               !.processing_level = LevelOf(msg.processing_level),
                               !.processing_max_pages = MaxPagesOf(msg.processing_max_pages),
                               !.status = "parsed"],
                   "identify_supplier", <<>>, <<>>)

(***************************************************************************)
(* identify_supplier                                                       *)
(*                                                                         *)
(* o is what the world answers: o.file ("ok" or "missing": open() of the   *)
(* stored document), o.convert ("ok", "empty", "raise": convert_from_bytes *)
(* of the first page), o.vision ("json", "nojson", "badjson", "raise": the *)
(* vision completion), o.text ("ok", "raise": the structured completion),  *)
(* o.info (the supplier fields returned).  pdf2image tells whether the     *)
(* pdf2image package can be imported.                                      *)
(***************************************************************************)
SupplierFound(ctx, info, method, calls) ==
    Result([ctx EXCEPT !.supplier_name = info.supplier_name,
                       !.brand_name = info.brand_name,
                       !.supplier_address = info.supplier_address,
                       !.buyer_address = info.buyer_address,
                       !.ship_to_address = info.ship_to_address,
                       !.status = "supplier_extracted",
                       !.extraction_method = method],
           "extract_country_codes", calls, <<>>)

SupplierError == "Error extracting supplier information"

\* the text branch: PDF text handed to the structured completion
IdentifyByText(ctx, o, calls) ==
    IF o.file # "ok" THEN Fail(ctx, SupplierError, calls, <<>>)
    ELSE LET c2 == calls \o <<Call("supplier_text", <<>>, <<>>)>>
         IN IF o.text = "raise" THEN Fail(ctx, SupplierError, c2, <<>>)
            ELSE SupplierFound(ctx, o.info, "text", c2)

identify_supplier(ctx, o, pdf2image) ==
    IF ctx.status = "error" THEN Bail(ctx)
    ELSE IF ~PathTruthy(ctx.invoice_path)
    THEN Fail(ctx, "Missing invoice_path in state", <<>>, <<>>)
    ELSE IF ctx.invoice_path.kind = "other" THEN Fail(ctx, SupplierError, <<>>, <<>>)
    ELSE
      LET ext == FileExt(ctx.invoice_path.name)
          is_image == ext \in ImageExts
          is_pdf == ext = ".pdf"
          use_vision == is_image \/ (is_pdf /\ ctx.processing_method = "image")
          \* use_vision after the conversion of a PDF's first page
          can_see == use_vision /\ (is_pdf => pdf2image)
          vcall == <<Call("supplier_vision", <<>>, <<>>)>>
          \* the calls issued before the text branch is reached
          before == IF can_see THEN vcall ELSE <<>>
      IN IF use_vision /\ o.file # "ok" THEN Fail(ctx, SupplierError, <<>>, <<>>)
         ELSE IF can_see /\ is_pdf /\ o.convert # "ok"
         THEN Fail(ctx, SupplierError, <<>>, <<>>)
         ELSE IF can_see /\ o.vision = "raise" THEN Fail(ctx, SupplierError, vcall, <<>>)
         ELSE IF can_see /\ o.vision = "json" THEN SupplierFound(ctx, o.info, "vision", vcall)
         ELSE IF is_pdf THEN IdentifyByText(ctx, o, before)
         ELSE Fail(ctx, "Unsupported file format for text extraction", before, <<>>)

(***************************************************************************)
(* extract_country_codes                                                   *)
(*                                                                         *)
(* o.llm ("ok", "raise": the structured completion), o.codes (the three    *)
(* codes and the region it returns), o.db ("ok", "fail", "raise": the      *)
(* outcome of insert_initial_header), o.fb ("ok", "raise": the fallback    *)
(* completion) and o.fbcode (the text it returns).                         *)
(***************************************************************************)
XX == <<"X", "X">>

\* result.x if result.x != "XX" else None
KnownCode(v) == IF v = Str(XX) THEN None ELSE v

\* state.get("id") or state.get("thread_id")
HeaderIdOrThread(ctx) == IF ctx.id # "" THEN ctx.id ELSE ctx.thread_id

\* a routing that would ignore the extraction method of identify_supplier
CountryStageImage(ctx) == "extract_invoice_data_image"

CountryStage(ctx) ==
    IF ctx.extraction_method = "vision" THEN "extract_invoice_data_image"
    ELSE "extract_invoice_data"

CodesFound(ctx, sup, buy, ship, region, calls, writes) ==
    Result([ctx EXCEPT !.supplier_country_code = sup,
                       !.buyer_country_code = buy,
                       !.ship_to_country_code = ship,
                       !.region = region,
                       !.status = "country_codes_extracted"],
           CountryStage(ctx), calls, writes)

\* a 'Received' checkpoint that would let the store's exception through
InsertInitialHeaderRaising(ctx, db) ==
    [writes |-> <<Write("Received", HeaderIdOrThread(ctx), db)>>, raised |-> db = "raise"]

\* the 'Received' checkpoint, keyed by id or else thread_id: whatever the write
\* does (db is "ok", "fail" or "raise") is logged and dropped
InsertInitialHeader(ctx, db) ==
    [writes |-> <<Write("Received", HeaderIdOrThread(ctx), db)>>, raised |-> FALSE]

extract_country_codes(ctx, o) ==
    IF ctx.status = "error" THEN Bail(ctx)
    ELSE LET call == <<CallR("country", <<>>, <<>>, IF o.llm = "ok" THEN "" ELSE "raise")>>
             ck == InsertInitialHeader(ctx, o.db)
             \* the writes attempted before the except branch is entered
             w == IF o.llm = "ok" THEN ck.writes ELSE <<>>
         IN IF o.llm = "ok" /\ ~ck.raised
            THEN CodesFound(ctx, KnownCode(o.codes.supplier), KnownCode(o.codes.buyer),
                            KnownCode(o.codes.ship_to), o.codes.region, call, ck.writes)
            ELSE IF ~Truthy(ctx.supplier_address)
            THEN CodesFound(ctx, None, None, None, Str(RegionStr("UNKNOWN")), call, w)
            ELSE LET c2 == call \o <<Call("country_fallback", <<>>, <<>>)>>
                     code == Strip(o.fbcode)
                 IN IF o.fb = "raise"
                    THEN CodesFound(ctx, None, None, None, Str(RegionStr("UNKNOWN")), c2, w)
                    ELSE CodesFound(ctx, Str(code), None, None,
                                    IF code # <<>> THEN Str(determine_region_fallback(code))
                                    ELSE Str(RegionStr("UNKNOWN")),
                                    c2, w)

(***************************************************************************)
(* get_supplier_configuration and the prompt_registry rows it reads.       *)
(*                                                                         *)
(* A schema is [present, props, items]: the top-level property names and   *)
(* the property names of one line item.  A registry row is [country_code,  *)
(* brand_name, processing_method, schema] (active rows only).              *)
(***************************************************************************)
LowerChar(c) ==
    CASE c = "A" -> "a" [] c = "I" -> "i" [] c = "N" -> "n" [] c = "V" -> "v"
      [] c = "U" -> "u" [] OTHER -> c

\* str.lower()
Lower(cs) == SeqMap(LowerChar, cs)

US == <<"U", "S">>

Acme == <<"A", "c", "m", "e">>

DefaultBrand == <<"d", "e", "f", "a", "u", "l", "t">>

FullSchema ==
    [present |-> TRUE,
     props |-> {"invoice_number", "issue_date", "total", "subtotal", "tax", "line_items"},
     items |-> {"description", "quantity", "amount"}]

NarrowSchema ==
    [present |-> TRUE,
     props |-> {"invoice_number", "total", "ship_to_country_code", "line_items"},
     items |-> {"description"}]

Row(cc, brand, method, schema) ==
    [country_code |-> cc, brand_name |-> brand, processing_method |-> method,
     schema |-> schema]

\* the registries the model runs against
Registry(name) ==
    CASE name = "full" ->
           {Row(US, DefaultBrand, "text", FullSchema),
            Row(US, DefaultBrand, "image", FullSchema)}
      [] name = "narrow" ->
           {Row(US, DefaultBrand, "text", FullSchema),
            Row(US, Lower(Acme), "text", NarrowSchema),
            Row(US, Lower(Acme), "image", NarrowSchema)}
      [] OTHER -> {}

\* WHERE country_code = ? AND brand_name = ? AND processing_method = ?
\* (a NULL parameter matches no row)
Rows(rows, country_code, brand, method) ==
    {r \in rows : /\ IsStr(country_code)
                  /\ r.country_code = country_code.s
                  /\ r.brand_name = brand
                  /\ r.processing_method = method}

\* a resolver that would not look for the default configuration
get_supplier_configuration_own_only(rows, country_code, brand_name, method) ==
    IF ~IsStr(brand_name) THEN [ok |-> FALSE, schema |-> NoSchema]
    ELSE IF Rows(rows, country_code, Lower(brand_name.s), method) # {}
    THEN [ok |-> TRUE,
          schema |-> (CHOOSE r \in Rows(rows, country_code, Lower(brand_name.s),
                                        method) : TRUE).schema]
    ELSE [ok |-> FALSE, schema |-> NoSchema]

\* get_supplier_configuration(country_code, brand_name, processing_method):
\* [ok, schema]; ok is FALSE when it raises
get_supplier_configuration(rows, country_code, brand_name, method) ==
    IF ~IsStr(brand_name) THEN [ok |-> FALSE, schema |-> NoSchema]
    ELSE LET own == Rows(rows, country_code, Lower(brand_name.s), method)
             dflt == Rows(rows, country_code, DefaultBrand, method)
         IN IF own # {} THEN [ok |-> TRUE, schema |-> (CHOOSE r \in own : TRUE).schema]
            ELSE IF dflt # {}
            THEN [ok |-> TRUE, schema |-> (CHOOSE r \in dflt : TRUE).schema]
            ELSE [ok |-> FALSE, schema |-> NoSchema]

(***************************************************************************)
(* What the extraction LLM answers.  An answer is named by an id; "raise"  *)
(* is a call that raises.  A raw answer is [h, liKind, li].                *)
(***************************************************************************)
Chars(txt) ==
    CASE txt = "INV-1" -> <<"I", "N", "V", "-", "1">>
      [] txt = "INV-2" -> <<"I", "N", "V", "-", "2">>
      [] txt = "unknown" -> <<"u", "n", "k", "n", "o", "w", "n">>
      [] txt = "2024-01-01" -> <<"2", "0", "2", "4", "-", "0", "1", "-", "0", "1">>
      [] txt = "1,234.56" -> <<"1", ",", "2", "3", "4", ".", "5", "6">>
      [] txt = "0.00" -> <<"0", ".", "0", "0">>
      [] txt = "10.50" -> <<"1", "0", ".", "5", "0">>
      [] OTHER -> <<txt>>

S(txt) == Str(Chars(txt))

ItemA == ("description" :> S("A")) @@ ("quantity" :> S("2")) @@ ("amount" :> S("10.50"))

ItemB == ("description" :> S("B")) @@ ("quantity" :> S("1")) @@ ("amount" :> S("3"))

ItemC == ("description" :> S("C")) @@ ("sku" :> S("K"))

Raw(h, liKind, li) == [h |-> h, liKind |-> liKind, li |-> li]

Response(id) ==
    CASE id = "R1" -> Raw(("invoice_number" :> S("INV-1")) @@ ("issue_date" :> S("2024-01-01")),
                          "list", <<ItemA>>)
      [] id = "R2" -> Raw(("invoice_number" :> S("INV-1")) @@ ("total" :> S("1,234.56")),
                          "list", <<ItemB>>)
      [] id = "R3" -> Raw(("total" :> S("9")) @@ ("tax" :> S("0.00")), "list", <<>>)
      [] id = "R4" -> Raw(("total" :> S("7")) @@ ("subtotal" :> S("5")) @@ ("tax" :> S("2"))
                          @@ ("note" :> S("n")) @@ ("_conf" :> S("h")), "list", <<ItemC>>)
      [] id = "R6" -> Raw(("invoice_number" :> S("INV-2"))
                          @@ ("ship_to_country_code" :> Str(<<"D", "E">>)), "list", <<>>)
      [] OTHER -> Raw(("invoice_number" :> S("INV-2")), "none", <<>>)

\* invoice_data.model_dump() of the model built from the schema: every declared
\* property is a key, None where the answer leaves it out, nothing else is
ModelDump(schema, raw) ==
    [h |-> [k \in schema.props \ {"line_items"} |-> Get(raw.h, k)],
     liKind |-> IF "line_items" \notin schema.props THEN "absent"
                ELSE IF raw.liKind = "list" THEN "list" ELSE "none",
     li |-> IF "line_items" \in schema.props /\ raw.liKind = "list"
            THEN SeqMap(LAMBDA it : [k \in schema.items |-> Get(it, k)], raw.li)
            ELSE <<>>]

(***************************************************************************)
(* Page groups and invoice collections.                                    *)
(*                                                                         *)
(* invoice_pages is a sequence of [inv, pages] in insertion order; pages   *)
(* are the str() of page numbers.  invoice_collections is a sequence of    *)
(* [inv, header, liKind, line_items, pages, page_data]; page_data is a     *)
(* sequence of [key, hasHeader, header].                                   *)
(***************************************************************************)
PageStr(p) == StrOfNat(p)

PageInt(cs) == DigitsVal(cs)

IndexOf(sq, inv) == IF \E i \in DOMAIN sq : sq[i].inv = inv
                    THEN CHOOSE i \in DOMAIN sq : sq[i].inv = inv ELSE 0

\* invoice_pages[inv].append(page), creating the list on first use
AddPage(invoice_pages, inv, page) ==
    LET i == IndexOf(invoice_pages, inv)
    IN IF i = 0 THEN Append(invoice_pages, [inv |-> inv, pages |-> <<page>>])
       ELSE [invoice_pages EXCEPT ![i].pages = Append(@, page)]

\* what .strip().lower() makes of a classification answer
LowerName(txt) == IF txt = "Unknown" THEN "unknown" ELSE txt

RECURSIVE ClassifyPages(_, _)
\* the classification loop: cls[p] is the answer for page p, "raise" a call
\* that raises
ClassifyPages(page_numbers, cls) ==
    IF page_numbers = <<>> THEN <<>>
    ELSE LET n == Len(page_numbers)
             before == ClassifyPages(SubSeq(page_numbers, 1, n - 1), cls)
             p == page_numbers[n]
         IN IF cls[p] = "raise" \/ LowerName(cls[p]) = "unknown" THEN before
            ELSE AddPage(before, cls[p], PageStr(p))

\* a default group that would hold the first page only
GroupPagesFirst(page_numbers, cls) ==
    IF ClassifyPages(page_numbers, cls) = <<>>
    THEN <<[inv |-> "unknown", pages |-> <<PageStr(page_numbers[1])>>]>>
    ELSE ClassifyPages(page_numbers, cls)

\* invoice_pages["unknown"] = [str(p) for p in page_numbers] when nothing was found
GroupPages(page_numbers, cls) ==
    LET found == ClassifyPages(page_numbers, cls)
    IN IF found = <<>>
       THEN <<[inv |-> "unknown", pages |-> SeqMap(PageStr, page_numbers)]>>
       ELSE found

ClassifyCalls(kind, page_numbers, cls) ==
    [i \in DOMAIN page_numbers |->
        CallR(kind, "", <<PageStr(page_numbers[i])>>, cls[page_numbers[i]])]

NewCollection(inv, pages) ==
    [inv |-> inv, header |-> EmptyDict, liKind |-> "list", line_items |-> <<>>,
     pages |-> pages, page_data |-> <<>>]

\* page_data[key] = entry
PutPageData(page_data, key, hasHeader, header) ==
    LET e == [key |-> key, hasHeader |-> hasHeader, header |-> header]
    IN IF \E i \in DOMAIN page_data : page_data[i].key = key
       THEN [i \in DOMAIN page_data |-> IF page_data[i].key = key THEN e ELSE page_data[i]]
       ELSE Append(page_data, e)

RECURSIVE NotePages(_, _)
\* page_data[page] = {...} for each page not yet in it
NotePages(page_data, pages) ==
    IF pages = <<>> THEN page_data
    ELSE LET pd == IF \E i \in DOMAIN page_data : page_data[i].key = Head(pages)
                   THEN page_data
                   ELSE Append(page_data, [key |-> Head(pages), hasHeader |-> FALSE,
                                           header |-> EmptyDict])
         IN NotePages(pd, Tail(pages))

\* sorted(page_nums, key=lambda x: int(x) if x.isdigit() else 0)
RECURSIVE SortPages(_)
SortPages(pages) ==
    IF pages = <<>> THEN <<>>
    ELSE LET key(i) == IF AllDigits(pages[i]) THEN PageInt(pages[i]) ELSE 0
             m == CHOOSE i \in DOMAIN pages :
                     \A j \in DOMAIN pages : key(i) < key(j) \/ (key(i) = key(j) /\ i <= j)
         IN <<pages[m]>> \o SortPages(SubSeq(pages, 1, m - 1) \o SubSeq(pages, m + 1, Len(pages)))

\* the header after one answer: a truthy value is stored when its key is new or
\* when override(k) allows replacing it
MergeHeader(header, new, override(_)) ==
    LET given == {k \in DOMAIN new : Truthy(new[k])}
    IN [k \in (DOMAIN header) \cup given |->
          IF k \in given /\ (k \notin DOMAIN header \/ override(k)) THEN new[k]
          ELSE header[k]]

\* item[key] = v for every item
TagItems(items, key, v) == SeqMap(LAMBDA it : Put(it, key, v), items)

\* item[key] = v for every item that lacks the key
TagMissing(items, key, v) ==
    SeqMap(LAMBDA it : IF key \in DOMAIN it THEN it ELSE Put(it, key, v), items)

(***************************************************************************)
(* process_page_batch                                                      *)
(***************************************************************************)
financial_fields == {"subtotal", "total", "tax", "items_total", "total_amount_due", "output_tax"}

UnknownPage == Chars("unknown")

\* f"batch_{batch_num}"
BatchKey(batch_num) == <<"b", "a", "t", "c", "h", "_">> \o StrOfNat(batch_num)

HasItems(d) == d.liKind = "list" /\ d.li # <<>>

\* the answer resp validated against the schema (model_dump) and normalized
Answer(schema, resp) == clean_numeric_values(ModelDump(schema, Response(resp)))

\* the entry with page_data[page] created for the pages of the call
Noted(entry, pages) == [entry EXCEPT !.page_data = NotePages(@, pages)]

\* the batch's answer d stored in the entry
BatchStored(noted, d, batch_num, is_final_batch) ==
    [noted EXCEPT
       !.page_data = PutPageData(@, BatchKey(batch_num), TRUE, d.h),
       !.header = MergeHeader(@, d.h, LAMBDA k : is_final_batch /\ k \in financial_fields),
       !.line_items =
           IF HasItems(d)
           THEN @ \o TagItems(TagMissing(d.li, "_source_page", Str(BatchKey(batch_num))),
                              "_batch_num", PyInt(batch_num))
           ELSE @]

\* one batch of one invoice: entry is invoice_collections[invoice_number], resp
\* the id of the LLM's answer; returns the entry as the batch leaves it
process_page_batch(entry, page_nums, batch_num, total_batches, schema, resp) ==
    IF resp = "raise" THEN Noted(entry, page_nums)
    ELSE BatchStored(Noted(entry, page_nums), Answer(schema, resp), batch_num,
                     batch_num = total_batches)

(***************************************************************************)
(* extract_invoice_data                                                    *)
(*                                                                         *)
(* o.file ("ok", "missing"), o.cls (the classification answer per page),   *)
(* o.db (the outcome of the 'Processing' write), o.inv (the answers of the *)
(* invoice-level and batch calls, in call order) and o.page (the answer of *)
(* the page-level call per page number).  rows is the registry and         *)
(* total_pages the page count of the stored document.                      *)
(***************************************************************************)
ExtractError == "Error extracting invoice data"

\* what the loops over invoice_pages carry: the collections, the processing
\* level, the LLM calls made, the number of the next invoice-level answer and
\* whether an exception left the loop
InvoiceAcc(coll, level, calls, k) ==
    [coll |-> coll, level |-> level, calls |-> calls, k |-> k, raised |-> FALSE]

\* (n + m - 1) // m
CeilDiv(n, m) == (n + m - 1) \div m

Min(a, b) == IF a < b THEN a ELSE b

\* batch b of one invoice, made of batch_pages and answered by resp
BatchOf(acc, batch_pages, b, num_batches, schema, resp) ==
    [acc EXCEPT
       !.entry = process_page_batch(@, batch_pages, b, num_batches, schema, resp),
       !.calls = Append(@, CallR("extract_batch", acc.entry.inv, batch_pages, resp)),
       !.k = @ + 1]

\* the batches of one invoice; acc is [entry, calls, k]
Batches(acc, sorted, max, num_batches, schema, answers) ==
    FoldLeft(LAMBDA a, b : BatchOf(a, SubSeq(sorted, (b - 1) * max + 1,
                                            Min(b * max, Len(sorted))),
                                   b, num_batches, schema, answers[a.k]),
             acc, PyRange(1, num_batches))

\* all pages of one invoice in one call, answered by d
WholeStored(noted, d) ==
    [noted EXCEPT
       !.header = d.h,
       !.liKind = IF d.liKind = "absent" THEN "list" ELSE d.liKind,
       !.line_items = IF HasItems(d)
                      THEN TagMissing(d.li, "_source_page", Str(UnknownPage))
                      ELSE d.li]

WholeInvoice(entry, sorted, schema, resp) ==
    IF resp = "raise" THEN Noted(entry, sorted)
    ELSE WholeStored(Noted(entry, sorted), Answer(schema, resp))

\* the invoice's batches done as bs
Batched(acc, bs) == [acc EXCEPT !.coll = Append(@, bs.entry), !.calls = bs.calls, !.k = bs.k]

\* the invoice done in one call answered by resp
Whole(acc, entry, sorted, resp) ==
    [acc EXCEPT !.coll = Append(@, entry),
                !.level = IF resp = "raise" THEN "page" ELSE @,
                !.calls = Append(@, CallR("extract_invoice", entry.inv, sorted, resp)),
                !.k = @ + 1]

\* one invoice of the "invoice" processing level
InvoiceOf(acc, g, sorted, max, schema, answers) ==
    IF max > 0 /\ Len(sorted) > max
    THEN Batched(acc, Batches([entry |-> NewCollection(g.inv, g.pages),
                               calls |-> acc.calls, k |-> acc.k],
                              sorted, max, CeilDiv(Len(sorted), max), schema, answers))
    ELSE Whole(acc, WholeInvoice(NewCollection(g.inv, g.pages), sorted, schema,
                                 answers[acc.k]),
               sorted, answers[acc.k])

\* the loop of the "invoice" processing level over invoice_pages
InvoiceLevel(invoice_pages, acc, max, schema, answers) ==
    FoldLeft(LAMBDA a, g : InvoiceOf(a, g, SortPages(g.pages), max, schema, answers),
             acc, invoice_pages)

\* the page's answer d stored in the entry; list.extend on a line_items that an
\* invoice-level answer left None raises after the header is stored
PageStored(entry, page, d, override) ==
    [entry EXCEPT
       !.page_data = PutPageData(@, page, TRUE, d.h),
       !.header = MergeHeader(@, d.h, LAMBDA k : override /\ k \in financial_fields),
       !.line_items = IF HasItems(d) /\ entry.liKind = "list"
                      THEN @ \o TagItems(d.li, "_source_page", Str(page))
                      ELSE @]

\* one page of one invoice at the "page" processing level
PageOfInvoice(entry, page, is_last_page, is_multi_page, schema, resp) ==
    IF resp = "raise" THEN entry
    ELSE PageStored(entry, page, Answer(schema, resp), is_last_page /\ is_multi_page)

\* the call for one page and what it leaves in the entry; acc is [entry, calls]
PageCall(acc, page, is_last_page, is_multi_page, schema, resp) ==
    [entry |-> PageOfInvoice(acc.entry, page, is_last_page, is_multi_page, schema, resp),
     calls |-> Append(acc.calls, CallR("extract_page", acc.entry.inv, <<page>>, resp))]

\* the pages of one invoice, one call each
PagesOfInvoice(entry, calls, schema, answers) ==
    FoldLeft(LAMBDA a, idx : PageCall(a, entry.pages[idx], idx = Len(entry.pages),
                                      Len(entry.pages) > 1, schema,
                                      answers[PageInt(entry.pages[idx])]),
             [entry |-> entry, calls |-> calls], PyRange(1, Len(entry.pages)))

\* if invoice_number not in invoice_collections: a new collection
WithCollection(coll, g) ==
    IF IndexOf(coll, g.inv) = 0 THEN Append(coll, NewCollection(g.inv, g.pages)) ELSE coll

\* the pages of the invoice at coll[j] done as r
GroupDone(acc, coll, j, r) == [acc EXCEPT !.coll = [coll EXCEPT ![j] = r.entry],
                                         !.calls = r.calls]

PageGroupAt(acc, coll, j, schema, answers) ==
    GroupDone(acc, coll, j, PagesOfInvoice(coll[j], acc.calls, schema, answers))

\* one invoice of the "page" processing level
PageGroup(acc, g, schema, answers) ==
    PageGroupAt(acc, WithCollection(acc.coll, g),
                IndexOf(WithCollection(acc.coll, g), g.inv), schema, answers)

\* the loop of the "page" processing level over invoice_pages
PageLevel(invoice_pages, acc, schema, answers) ==
    FoldLeft(LAMBDA a, g : PageGroup(a, g, schema, answers), acc, invoice_pages)

\* data["header"][key] = state value, when that is truthy and the key is new
Inject(header, key, v) ==
    IF Truthy(v) /\ key \notin DOMAIN header THEN Put(header, key, v) ELSE header

\* "Add country codes to all invoices"
InjectCodes(ctx, header) ==
    Inject(Inject(Inject(Inject(header,
        "supplier_country_code", ctx.supplier_country_code),
        "buyer_country_code", ctx.buyer_country_code),
        "ship_to_country_code", ctx.ship_to_country_code),
        "region", ctx.region)

\* the invoice created when nothing was collected
FallbackInvoice(ctx, pages) ==
    [inv |-> "unknown",
     header |-> ("invoice_number" :> S("unknown"))
                @@ ("supplier_details" :> ctx.supplier_name)
                @@ ("supplier_country_code" :> ctx.supplier_country_code)
                @@ ("buyer_details" :> ctx.buyer_address)
                @@ ("buyer_country_code" :> ctx.buyer_country_code)
                @@ ("ship_to_details" :> ctx.ship_to_address)
                @@ ("ship_to_country_code" :> ctx.ship_to_country_code)
                @@ ("region" :> ctx.region),
     liKind |-> "list", line_items |-> <<>>, pages |-> pages, page_data |-> <<>>]

\* the country codes in every header, or the fallback invoice
WithCodes(ctx, coll, pages) ==
    IF coll = <<>> THEN <<FallbackInvoice(ctx, pages)>>
    ELSE [i \in DOMAIN coll |-> [coll[i] EXCEPT !.header = InjectCodes(ctx, @)]]

\* the tail both extraction stages share: country codes into every header, the
\* fallback invoice, and the update handed to merge_invoice_data.  The update's
\* page_tracking key is no key of AgentState and does not reach the state.
Collected(ctx, acc, schema, pages, method, writes) ==
    Result([ctx EXCEPT !.invoice_collections = WithCodes(ctx, acc.coll, pages),
                       !.invoice_schema = schema,
                       !.status = "data_extracted_per_page",
                       !.extraction_method = method],
           "merge_invoice_data", acc.calls, writes)

\* the 'Processing' checkpoint of both extraction stages, keyed by state.get("id");
\* whatever the write does is logged and dropped
UpdateHeaderWithInvoiceNumber(ctx, invoice_pages, db) ==
    [writes |-> IF invoice_pages # <<>> THEN <<Write("Processing", ctx.id, db)>> ELSE <<>>,
     raised |-> FALSE]

\* state.get("processing_level", "page")
ProcessingLevel(ctx) == IF ctx.processing_level = "" THEN "page" ELSE ctx.processing_level

\* the page numbers extract_invoice_data processes
TextPageNumbers(ctx, total_pages) ==
    IF ctx.pages.t = "none" THEN PyRange(1, total_pages)
    ELSE PageNumbersText(ctx.pages.s, total_pages)

\* the page-level pass, when the processing level is (or has fallen back to) "page"
TextByPage(ctx, o, schema, page_numbers, invoice_pages, writes, start) ==
    Collected(ctx,
              IF start.level = "page" THEN PageLevel(invoice_pages, start, schema, o.page)
              ELSE start,
              schema, SeqMap(PageStr, page_numbers),
              IF start.level = "page" THEN "text_per_page" ELSE "text_per_invoice",
              writes)

\* the invoice-level pass, when the processing level is "invoice"
TextByInvoice(ctx, o, schema, page_numbers, invoice_pages, ccalls, ck) ==
    IF ck.raised THEN Fail(ctx, ExtractError, ccalls, ck.writes)
    ELSE TextByPage(ctx, o, schema, page_numbers, invoice_pages, ck.writes,
                    IF ProcessingLevel(ctx) = "invoice"
                    THEN InvoiceLevel(invoice_pages, InvoiceAcc(<<>>, "invoice", ccalls, 1),
                                      ctx.processing_max_pages, schema, o.inv)
                    ELSE InvoiceAcc(<<>>, ProcessingLevel(ctx), ccalls, 1))

\* page classification and the 'Processing' checkpoint
TextClassified(ctx, o, schema, page_numbers) ==
    TextByInvoice(ctx, o, schema, page_numbers, GroupPages(page_numbers, o.cls),
                  ClassifyCalls("classify_text", page_numbers, o.cls),
                  UpdateHeaderWithInvoiceNumber(ctx, ClassifyPages(page_numbers, o.cls),
                                                o.db))

\* the stage once the supplier configuration cfg is looked up
TextConfigured(ctx, o, cfg, total_pages) ==
    IF ~cfg.ok THEN Fail(ctx, ExtractError, <<>>, <<>>)
    ELSE IF ctx.invoice_path.kind # "str" THEN Fail(ctx, ExtractError, <<>>, <<>>)
    ELSE IF FileExt(ctx.invoice_path.name) # ".pdf"
    THEN Fail(ctx, "Text extraction only works with PDF files", <<>>, <<>>)
    ELSE IF o.file # "ok" THEN Fail(ctx, ExtractError, <<>>, <<>>)
    ELSE IF ctx.pages.t \notin {"none", "str"} THEN Fail(ctx, ExtractError, <<>>, <<>>)
    ELSE TextClassified(ctx, o, cfg.schema, TextPageNumbers(ctx, total_pages))

extract_invoice_data(ctx, o, rows, total_pages) ==
    IF ctx.status = "error" THEN Bail(ctx)
    ELSE TextConfigured(ctx, o,
                        get_supplier_configuration(rows, ctx.supplier_country_code,
                                                   ctx.brand_name, "text"),
                        total_pages)

(***************************************************************************)
(* extract_invoice_data_image                                              *)
(*                                                                         *)
(* o.file, o.cls, o.db, o.inv and o.page as for extract_invoice_data, and  *)
(* o.conv: what convert_from_bytes gives per page ("ok", "empty", "raise").*)
(***************************************************************************)
ImageError == "Error extracting invoice data from image"

critical_header_fields ==
    {"invoice_number", "issue_date", "po_number", "due_date", "order_number",
     "customer_id", "payment_terms", "shipping_terms"}

image_financial_fields == financial_fields \cup {"discount", "shipping_cost", "vat"}

ImagePageNumbers(ctx, total_pages) ==
    IF ctx.pages.t = "none" THEN PyRange(1, total_pages)
    ELSE PageNumbersImage(ctx.pages.s, total_pages)

\* an invoice-level vision call fails when it raises or when len(line_items)
\* is taken of a None
ImageWholeFails(resp) == resp = "raise" \/ Response(resp).liKind = "none"

\* the answer of an invoice-level vision call (json.loads of the text
\* returned, normalized to d) stored in the entry
ImageWholeStored(noted, d) ==
    [noted EXCEPT
       !.header = d.h,
       !.liKind = "list",
       !.line_items = IF HasItems(d)
                      THEN TagMissing(d.li, "_source_page", Str(UnknownPage))
                      ELSE d.li]

ImageWholeInvoice(entry, sorted, resp) ==
    IF ImageWholeFails(resp) THEN Noted(entry, sorted)
    ELSE ImageWholeStored(Noted(entry, sorted), clean_numeric_values(Response(resp)))

\* the invoice done in one vision call answered by resp
ImageWhole(acc, entry, sorted, resp) ==
    [acc EXCEPT !.coll = Append(@, entry),
                !.level = IF ImageWholeFails(resp) THEN "page" ELSE @,
                !.calls = Append(@, CallR("extract_invoice_image", entry.inv, sorted, resp)),
                !.k = @ + 1]

\* one invoice of the "invoice" processing level
ImageInvoiceOf(acc, g, sorted, resp) ==
    ImageWhole(acc, ImageWholeInvoice(NewCollection(g.inv, g.pages), sorted, resp),
               sorted, resp)

ImageInvoiceLevel(invoice_pages, acc, answers) ==
    FoldLeft(LAMBDA a, g : ImageInvoiceOf(a, g, SortPages(g.pages), answers[a.k]),
             acc, invoice_pages)

\* a merge that would store every truthy value of the page, replacing what the
\* header holds
ImageMergeHeaderLast(header, new, is_last_page, is_multi_page) ==
    MergeHeader(header, new, LAMBDA k : TRUE)

\* the header after one page's answer on the vision path
ImageMergeHeader(header, new, is_last_page, is_multi_page) ==
    MergeHeader(header, new,
        LAMBDA k : IF k \in critical_header_fields THEN ~Truthy(Get(header, k))
                   ELSE is_last_page /\ is_multi_page /\ k \in image_financial_fields)

\* the page's answer d stored in the entry; len(line_items) of a None raises
\* before anything is stored
ImagePageStored(entry, page, d, is_last_page, is_multi_page) ==
    IF d.liKind = "none" THEN entry
    ELSE [entry EXCEPT
            !.page_data = PutPageData(@, page, TRUE, d.h),
            !.header = ImageMergeHeader(@, d.h, is_last_page, is_multi_page),
            !.line_items = IF HasItems(d) /\ entry.liKind = "list"
                           THEN @ \o TagItems(d.li, "_source_page", Str(page))
                           ELSE @]

ImagePageOfInvoice(entry, page, is_last_page, is_multi_page, schema, resp) ==
    IF resp = "raise" THEN entry
    ELSE ImagePageStored(entry, page, Answer(schema, resp), is_last_page, is_multi_page)

\* the call for page idx carries the images of the pages up to it
ImagePageCall(acc, idx, schema, resp) ==
    [entry |-> ImagePageOfInvoice(acc.entry, acc.entry.pages[idx],
                                  idx = Len(acc.entry.pages), Len(acc.entry.pages) > 1,
                                  schema, resp),
     calls |-> Append(acc.calls, CallR("extract_page_image", acc.entry.inv,
                                       SubSeq(acc.entry.pages, 1, idx), resp))]

\* the pages of one invoice, one call each
ImagePagesOfInvoice(entry, calls, schema, answers) ==
    FoldLeft(LAMBDA a, idx : ImagePageCall(a, idx, schema,
                                           answers[PageInt(entry.pages[idx])]),
             [entry |-> entry, calls |-> calls], PyRange(1, Len(entry.pages)))

\* the critical fields that page_data[i] can fill
Fill(missing, page_header) == {f \in missing : Truthy(Get(page_header, f))}

Filled(header, fill, page_header) ==
    [k \in (DOMAIN header) \cup fill |-> IF k \in fill THEN page_header[k] ELSE header[k]]

RECURSIVE FillMissing(_, _, _, _)
\* the search of page_data[i..] for the critical fields still missing;
\* raised is the KeyError of an entry stored without a header
FillMissing(header, missing, page_data, i) ==
    IF i > Len(page_data) \/ missing = {} THEN [header |-> header, raised |-> FALSE]
    ELSE IF ~page_data[i].hasHeader THEN [header |-> header, raised |-> TRUE]
    ELSE FillMissing(Filled(header, Fill(missing, page_data[i].header),
                            page_data[i].header),
                     missing \ Fill(missing, page_data[i].header), page_data, i + 1)

Backfilled(entry, r) ==
    [entry |-> [entry EXCEPT !.header = r.header], raised |-> r.raised]

\* "check if we're missing any critical header fields" of a multi-page invoice
Backfill(entry) ==
    IF Len(entry.pages) > 1
    THEN Backfilled(entry,
                    FillMissing(entry.header,
                                {f \in critical_header_fields : ~Truthy(Get(entry.header, f))},
                                entry.page_data, 1))
    ELSE [entry |-> entry, raised |-> FALSE]

\* the pages of the invoice at coll[j] done with calls, and backfilled as b
ImageGroupDone(acc, coll, j, calls, b) ==
    [acc EXCEPT !.coll = [coll EXCEPT ![j] = b.entry], !.calls = calls,
                !.raised = b.raised]

ImageGroupPaged(acc, coll, j, r) == ImageGroupDone(acc, coll, j, r.calls, Backfill(r.entry))

ImagePageGroupAt(acc, coll, j, schema, answers) ==
    ImageGroupPaged(acc, coll, j, ImagePagesOfInvoice(coll[j], acc.calls, schema, answers))

\* one invoice of the "page" processing level; an exception ends the loop
ImagePageGroup(acc, g, schema, answers) ==
    IF acc.raised THEN acc
    ELSE ImagePageGroupAt(acc, WithCollection(acc.coll, g),
                          IndexOf(WithCollection(acc.coll, g), g.inv), schema, answers)

ImagePageLevel(invoice_pages, acc, schema, answers) ==
    FoldLeft(LAMBDA a, g : ImagePageGroup(a, g, schema, answers), acc, invoice_pages)

ImageCollected(ctx, schema, images, writes, level, acc) ==
    IF acc.raised THEN Fail(ctx, ImageError, acc.calls, writes)
    ELSE Collected(ctx, acc, schema, SeqMap(PageStr, images),
                   IF level = "page" THEN "vision_per_page" ELSE "vision_per_invoice",
                   writes)

\* the page-level pass, when the processing level is (or has fallen back to) "page"
ImageByPage(ctx, o, schema, images, invoice_pages, writes, start) ==
    ImageCollected(ctx, schema, images, writes, start.level,
                   IF start.level = "page"
                   THEN ImagePageLevel(invoice_pages, start, schema, o.page)
                   ELSE start)

\* the invoice-level pass, when the processing level is "invoice"
ImageByInvoice(ctx, o, schema, images, invoice_pages, ccalls, ck) ==
    IF ck.raised THEN Fail(ctx, ImageError, ccalls, ck.writes)
    ELSE ImageByPage(ctx, o, schema, images, invoice_pages, ck.writes,
                     IF ProcessingLevel(ctx) = "invoice"
                     THEN ImageInvoiceLevel(invoice_pages,
                                            InvoiceAcc(<<>>, "invoice", ccalls, 1), o.inv)
                     ELSE InvoiceAcc(<<>>, ProcessingLevel(ctx), ccalls, 1))

\* page classification and the 'Processing' checkpoint; images are the pages
\* of all_images
ImageClassified(ctx, o, schema, images) ==
    IF images = <<>> THEN Fail(ctx, ImageError, <<>>, <<>>)
    ELSE ImageByInvoice(ctx, o, schema, images, GroupPages(images, o.cls),
                        ClassifyCalls("classify_image", images, o.cls),
                        UpdateHeaderWithInvoiceNumber(ctx, ClassifyPages(images, o.cls),
                                                      o.db))

\* convert_from_bytes page by page
ImageConverted(ctx, o, schema, page_numbers) ==
    IF \E i \in DOMAIN page_numbers : o.conv[page_numbers[i]] = "raise"
    THEN Fail(ctx, ImageError, <<>>, <<>>)
    ELSE ImageClassified(ctx, o, schema,
                         SeqFilter(LAMBDA q : o.conv[q] = "ok", page_numbers))

\* a PDF document: pdf2image imported, the file read, the pages resolved
ImageOfPdf(ctx, o, schema, total_pages, pdf2image) ==
    IF ~pdf2image
    THEN Result([ctx EXCEPT !.extraction_method = "text_fallback"],
                "extract_invoice_data", <<>>, <<>>)
    ELSE IF o.file # "ok" THEN Fail(ctx, ImageError, <<>>, <<>>)
    ELSE IF ctx.pages.t \notin {"none", "str"} THEN Fail(ctx, ImageError, <<>>, <<>>)
    ELSE ImageConverted(ctx, o, schema, ImagePageNumbers(ctx, total_pages))

\* the stage once the supplier configuration cfg is looked up
ImageConfigured(ctx, o, cfg, total_pages, pdf2image) ==
    IF ~cfg.ok THEN Fail(ctx, ImageError, <<>>, <<>>)
    ELSE IF ctx.invoice_path.kind # "str" THEN Fail(ctx, ImageError, <<>>, <<>>)
    ELSE IF FileExt(ctx.invoice_path.name) = ".pdf"
    THEN ImageOfPdf(ctx, o, cfg.schema, total_pages, pdf2image)
    ELSE IF o.file # "ok" THEN Fail(ctx, ImageError, <<>>, <<>>)
    ELSE ImageClassified(ctx, o, cfg.schema, <<1>>)

extract_invoice_data_image(ctx, o, rows, total_pages, pdf2image) ==
    IF ctx.status = "error" \/ ~Truthy(ctx.brand_name) THEN Bail(ctx)
    ELSE ImageConfigured(ctx, o,
                         get_supplier_configuration(rows, ctx.supplier_country_code,
                                                    ctx.brand_name, "image"),
                         total_pages, pdf2image)

(***************************************************************************)
(* merge_invoice_data                                                      *)
(***************************************************************************)
\* k.startswith("_"), for the keys of the model
IsInternal(k) == k \in {"_source_page", "_batch_num", "_page_tracking", "_conf"}

InternalKeys(d) == {k \in DOMAIN d : IsInternal(k)}

\* extraction_method + "_multiple"
Multiple(method) ==
    CASE method = "text_per_page" -> "text_per_page_multiple"
      [] method = "text_per_invoice" -> "text_per_invoice_multiple"
      [] method = "vision_per_page" -> "vision_per_page_multiple"
      [] method = "vision_per_invoice" -> "vision_per_invoice_multiple"
      [] OTHER -> "unknown_multiple"

\* header fields that would let the injected country data through
HeaderLevelFieldsWide(schema) ==
    (schema.props \ {"line_items"}) \cup {"region", "supplier_country_code"}

\* header_level_fields: the schema's top-level properties without line_items
HeaderLevelFields(schema) == schema.props \ {"line_items"}

\* line_item_fields: the schema's line-item properties and _source_page
LineItemFields(schema) ==
    (IF "line_items" \in schema.props THEN schema.items ELSE {}) \cup {"_source_page"}

\* cleaned_item: the declared fields of one line item, _source_page removed
CleanedItem(schema, item) == Restrict(item, LineItemFields(schema) \ {"_source_page"})

\* the three country codes of the state, added where the header lacks them
MergeCodes(ctx, header) ==
    Inject(Inject(Inject(header,
        "supplier_country_code", ctx.supplier_country_code),
        "buyer_country_code", ctx.buyer_country_code),
        "ship_to_country_code", ctx.ship_to_country_code)

\* merged_data["_page_tracking"]: a dict that names the pages of the invoice
PageTracking(pages) == [t |-> "dict", s |-> pages, m |-> 0, e |-> 0]

\* merged_data of one collected invoice
MergedInvoice(ctx, schema, data) ==
    LET merged == MergeCodes(ctx, Put(data.header, "invoice_number", S(data.inv)))
    IN [present |-> TRUE,
        h |-> Put(Restrict(merged, HeaderLevelFields(schema) \cup InternalKeys(merged)),
                  "_page_tracking", PageTracking(data.pages)),
        li |-> SeqMap(LAMBDA it : CleanedItem(schema, it), data.line_items),
        pages |-> data.pages,
        method |-> ctx.extraction_method]

merge_invoice_data(ctx) ==
    IF ctx.status = "error" THEN Bail(ctx)
    ELSE IF ctx.invoice_collections = <<>>
    THEN Fail(ctx, "No invoice collections found in state", <<>>, <<>>)
    \* raise ResourceNotFoundError: the name is not defined, and neither is it
    \* where the except clause looks it up, so the NameError leaves the node
    ELSE IF ~ctx.invoice_schema.present THEN Raise(ctx, <<>>, <<>>)
    \* iterating a line_items that is None raises, and leaves the same way
    ELSE IF \E i \in DOMAIN ctx.invoice_collections :
               ctx.invoice_collections[i].liKind # "list"
    THEN Raise(ctx, <<>>, <<>>)
    ELSE LET merged_invoices ==
               [i \in DOMAIN ctx.invoice_collections |->
                   MergedInvoice(ctx, ctx.invoice_schema, ctx.invoice_collections[i])]
         IN IF Len(merged_invoices) = 1
            THEN Result([ctx EXCEPT !.invoice_data = merged_invoices[1],
                                    !.status = "data_merged"],
                        "prepare_response", <<>>, <<>>)
            ELSE Result([ctx EXCEPT !.invoice_data = merged_invoices[1],
                                    !.all_invoices = merged_invoices,
                                    !.status = "data_merged_multiple",
                                    !.extraction_method = Multiple(@)],
                        "prepare_response", <<>>, <<>>)

(***************************************************************************)
(* prepare_response and handle_error                                       *)
(***************************************************************************)
ErrorOutput(msg) == [NoOutput EXCEPT !.status = "error", !.error = msg]

\* a cleaning that would strip the line items and leave the header as it is
CleanInternalItemsOnly(inv) ==
    [h |-> inv.h,
     li |-> SeqMap(LAMBDA it : Restrict(it, {k \in DOMAIN it : ~IsInternal(k)}), inv.li),
     calc |-> None]

\* clean_internal_fields of one merged invoice
CleanInternal(inv) ==
    [h |-> Restrict(inv.h, {k \in DOMAIN inv.h : ~IsInternal(k)}),
     li |-> SeqMap(LAMBDA it : Restrict(it, {k \in DOMAIN it : ~IsInternal(k)}), inv.li),
     calc |-> None]

RECURSIVE CountPages(_, _)
\* page_counts of one list of line items: [page, count] in order of first use
CountPages(items, counts) ==
    IF items = <<>> THEN counts
    ELSE LET page == Get(Head(items), "_source_page")
             i == IF \E j \in DOMAIN counts : counts[j].page = page
                  THEN CHOOSE j \in DOMAIN counts : counts[j].page = page ELSE 0
             c2 == IF ~Truthy(page) THEN counts
                   ELSE IF i = 0 THEN Append(counts, [page |-> page, count |-> 1])
                   ELSE [counts EXCEPT ![i].count = @ + 1]
         IN CountPages(Tail(items), c2)

RECURSIVE LineItemCounts(_, _)
\* page_line_item_counts: [inv, page, count]
LineItemCounts(coll, i) ==
    IF i > Len(coll) THEN <<>>
    ELSE LET cs == CountPages(coll[i].line_items, <<>>)
         IN [j \in DOMAIN cs |-> [inv |-> coll[i].inv, page |-> cs[j].page,
                                  count |-> cs[j].count]]
            \o LineItemCounts(coll, i + 1)

prepare_response(ctx) ==
    IF ctx.status = "error"
    THEN Result([ctx EXCEPT !.output =
                    ErrorOutput(IF ctx.error # "" THEN ctx.error
                                ELSE "Unknown error during extraction")],
                "END", <<>>, <<>>)
    ELSE IF ~ctx.invoice_data.present
    THEN Result([ctx EXCEPT !.output = ErrorOutput("Missing invoice data in state")],
                "END", <<>>, <<>>)
    \* len(data["line_items"]) of a None
    ELSE IF \E i \in DOMAIN ctx.invoice_collections :
               ctx.invoice_collections[i].liKind # "list"
    THEN Result([ctx EXCEPT !.status = "error",
                            !.error = "Error preparing response",
                            !.output = ErrorOutput("Error preparing response")],
                "handle_error", <<>>, <<>>)
    ELSE LET many == ctx.status = "data_merged_multiple" /\ Len(ctx.all_invoices) > 1
             shown == IF many THEN ctx.all_invoices ELSE <<ctx.invoice_data>>
         IN Result([ctx EXCEPT
                      !.status = "response_prepared",
                      !.output = [status |-> "success", error |-> "",
                                  invoices |-> SeqMap(CleanInternal, shown),
                                  multi |-> many,
                                  extraction_method |-> ctx.extraction_method,
                                  processing_method |-> "",
                                  tracking |-> [i \in DOMAIN ctx.invoice_collections |->
                                      [inv |-> ctx.invoice_collections[i].inv,
                                       pages |-> ctx.invoice_collections[i].pages]],
                                  counts |-> LineItemCounts(ctx.invoice_collections, 1)]],
                   "END", <<>>, <<>>)

\* the 'Failed' checkpoint: attempted when the state has an id; whatever the
\* write does is logged and dropped
UpdateInvoiceStatusFailed(ctx, db) ==
    [writes |-> IF ctx.id # "" THEN <<Write("Failed", ctx.id, db)>> ELSE <<>>,
     raised |-> FALSE]

\* handle_error returns None: the error response it stores in its own copy of
\* the state never reaches the graph's state, and the graph ends
handle_error(ctx, db) ==
    Result(ctx, "END", <<>>, UpdateInvoiceStatusFailed(ctx, db).writes)

(***************************************************************************)
(* standardize_extraction_output, process_invoice, insert_into_db and      *)
(* process_main                                                            *)
(***************************************************************************)
\* a + b of two numbers
AddNum(a, b) ==
    LET e == IF a.e > b.e THEN a.e ELSE b.e
        scale(x) == x.m * (10 ^ (e - x.e))
    IN IF a.t = "int" /\ b.t = "int" THEN PyInt(a.m + b.m)
       ELSE PyFloat(scale(a) + scale(b), e)

RECURSIVE SumAmounts(_)
\* sum(item.get("amount", 0) for item in items if the amount is an int or float)
SumAmounts(items) ==
    IF items = <<>> THEN PyInt(0)
    ELSE LET a == Get(Head(items), "amount")
         IN IF a.t \in {"int", "float"} THEN AddNum(a, SumAmounts(Tail(items)))
            ELSE SumAmounts(Tail(items))

RECURSIVE LexLeq(_, _)
\* a <= b of two strs of digits
LexLeq(a, b) ==
    IF a = <<>> THEN TRUE
    ELSE IF b = <<>> THEN FALSE
    ELSE IF Head(a) = Head(b) THEN LexLeq(Tail(a), Tail(b))
    ELSE DigitVal(Head(a)) < DigitVal(Head(b))

RECURSIVE SortStrs(_)
\* list.sort() of a list of strs
SortStrs(pages) ==
    IF pages = <<>> THEN <<>>
    ELSE LET m == CHOOSE i \in DOMAIN pages :
                     \A j \in DOMAIN pages :
                        IF pages[i] = pages[j] THEN i <= j ELSE LexLeq(pages[i], pages[j])
         IN <<pages[m]>> \o SortStrs(SubSeq(pages, 1, m - 1) \o SubSeq(pages, m + 1, Len(pages)))

\* a merged invoice carries the key of its collection as invoice_number and no
\* _source_page, so the pass over the invoices adds calculated_financials only
standardize_extraction_output(output, processing_method) ==
    [output EXCEPT
       !.processing_method = processing_method,
       !.invoices = SeqMap(LAMBDA inv : [inv EXCEPT !.calc = SumAmounts(inv.li)], @),
       !.tracking = SeqMap(LAMBDA g : [g EXCEPT !.pages = SortStrs(@)], @)]

\* what a driver hands back: kind "value" with the envelope out, or kind "raise"
\* when an exception leaves it
Returned(out) == [kind |-> "value", out |-> out]

Escapes == [kind |-> "raise", out |-> NoOutput]

\* os.path.basename(invoice_path) and "invoice_store/" + invoice_path raise on
\* anything but a str
PathIsStr(path) == path.kind \in {"absent", "str"}

\* the except branch of process_invoice
ProcessInvoiceExcept(request) ==
    IF PathIsStr(request.invoice_path)
    THEN Returned(ErrorOutput("Error processing invoice"))
    ELSE Escapes

\* process_invoice after agent_graph.invoke: final is the final state, raised
\* whether invoke raised, write ("ok", "raise") what writing the output file does
process_invoice(request, final, raised, write) ==
    IF raised THEN ProcessInvoiceExcept(request)
    ELSE IF ~PathIsStr(request.invoice_path) THEN ProcessInvoiceExcept(request)
    ELSE IF write = "raise" THEN ProcessInvoiceExcept(request)
    ELSE IF final.output.status = ""
    THEN Returned(ErrorOutput("Missing 'output' in final state"))
    ELSE Returned(standardize_extraction_output(final.output,
                                                MethodOf(request.processing_method)))

\* insert_into_db: TRUE when an invoice id comes back; db is "ok" or "raise"
insert_into_db(db) == db = "ok"

\* process_main before process_invoice: the envelope of a request that does
\* not parse to an object
ParseFailure(request) == request.json # "object"

\* process_main after process_invoice returned r
process_main(request, r, db) ==
    IF r.kind = "raise" THEN Escapes
    ELSE IF request.skip_db_insert THEN r
    ELSE IF r.out.status = "success" /\ request.transaction_id # ""
    THEN IF insert_into_db(db) THEN r
         ELSE Returned([r.out EXCEPT !.status = "error",
                                     !.error = "Failed to insert invoice into database"])
    ELSE r

(***************************************************************************)
(* The requests, environments and answers the model draws from.            *)
(***************************************************************************)
BaseRequest ==
    [json |-> "object", invoice_path |-> PathOf("inv.pdf"), processing_method |-> "",
     processing_level |-> "", pages |-> None, processing_max_pages |-> None,
     transaction_id |-> "T1", skip_db_insert |-> FALSE]

\* an environment: whether pdf2image can be imported, the registry, and the
\* page count of the stored PDF
Env(pdf2image, registry) ==
    [pdf2image |-> pdf2image, registry |-> registry, total_pages |-> MaxPages]

Run(request, env) == [req |-> request, env |-> env]

Runs ==
    { Run([BaseRequest EXCEPT !.json = "malformed"], Env(TRUE, "full")),
      Run([BaseRequest EXCEPT !.json = "scalar"], Env(TRUE, "full")),
      Run([BaseRequest EXCEPT !.invoice_path = NoPath], Env(TRUE, "full")),
      Run([BaseRequest EXCEPT !.invoice_path = NullPath], Env(TRUE, "full")),
      Run([BaseRequest EXCEPT !.invoice_path = NonStrPath], Env(TRUE, "full")),
      Run([BaseRequest EXCEPT !.invoice_path = PathOf("notes.txt"),
                              !.transaction_id = ""], Env(TRUE, "full")),
      Run([BaseRequest EXCEPT !.invoice_path = PathOf("scan.png")], Env(TRUE, "full")),
      Run([BaseRequest EXCEPT !.invoice_path = PathOf("scan.png"),
                              !.processing_level = "invoice"], Env(FALSE, "narrow")),
      Run(BaseRequest, Env(TRUE, "full")),
      Run(BaseRequest, Env(TRUE, "none")),
      Run([BaseRequest EXCEPT !.pages = Str(FirstSpec), !.transaction_id = ""],
          Env(TRUE, "narrow")),
      Run([BaseRequest EXCEPT !.pages = Str(FirstSpec), !.skip_db_insert = TRUE],
          Env(TRUE, "full")),
      Run([BaseRequest EXCEPT !.processing_level = "invoice"], Env(TRUE, "full")),
      Run([BaseRequest EXCEPT !.processing_level = "invoice"], Env(TRUE, "narrow")),
      Run([BaseRequest EXCEPT !.processing_level = "invoice",
                              !.processing_max_pages = PyInt(1)], Env(TRUE, "full")),
      Run([BaseRequest EXCEPT !.processing_method = "image"], Env(TRUE, "full")),
      Run([BaseRequest EXCEPT !.processing_method = "image"], Env(FALSE, "full")),
      Run([BaseRequest EXCEPT !.processing_method = "image",
                              !.processing_level = "invoice"], Env(TRUE, "narrow")) }

DbOutcomes == {"ok", "fail", "raise"}

SupplierInfos ==
    { [supplier_name |-> S("Acme Corp"), brand_name |-> Str(Acme),
       supplier_address |-> S("1 Main St, US"), buyer_address |-> S("2 High St"),
       ship_to_address |-> Str(<<>>)],
      [supplier_name |-> S("Acme Corp"), brand_name |-> Str(<<>>),
       supplier_address |-> Str(<<>>), buyer_address |-> Str(<<>>),
       ship_to_address |-> Str(<<>>)] }

IdentifyOracles ==
    [file : {"ok", "missing"}, convert : {"ok", "empty"},
     vision : {"json", "nojson", "raise"}, text : {"ok", "raise"}, info : SupplierInfos]

CountryAnswers ==
    { [supplier |-> Str(US), buyer |-> Str(XX), ship_to |-> Str(<<"G", "B">>),
       region |-> Str(RegionStr("NA"))] }

CountryOracles ==
    [llm : {"ok", "raise"}, codes : CountryAnswers, db : DbOutcomes,
     fb : {"ok", "raise"}, fbcode : {<<" ", "d", "e">>, <<>>}]

ClassifyAnswers == {"INV-1", "INV-2", "unknown", "raise"}

ExtractAnswers == {"raise", "R1", "R2", "R3", "R4", "R6"}

\* an invoice-level answer may also leave line_items null ("R5")
InvoiceAnswers == {"raise", "R1", "R3", "R4", "R5"}

\* what the page-level calls answer after the invoice level has fallen back
FallbackAnswers == {"raise", "R4"}

ExtractOracle(file, conv, cls, db, inv, page) ==
    [file |-> file, conv |-> conv, cls |-> cls, db |-> db, inv |-> inv, page |-> page]

\* the oracles of an extraction stage that processes page_numbers: every
\* combination of classification and extraction answers with the file readable
\* and the checkpoint written (page-level answers only where the page level can
\* be reached), and one slice each for an unreadable file, for a first page
\* that converts to no image, and for the other checkpoint outcomes
ExtractOracles(page_numbers, level) ==
    LET pages == Range(page_numbers)
        calls == 1..Len(page_numbers)
        ok == [q \in pages |-> "ok"]
        blank == [q \in pages |-> IF q = 1 THEN "empty" ELSE "ok"]
        classes == [pages -> ClassifyAnswers]
        none == [i \in calls |-> "raise"]
        quiet == [q \in pages |-> "raise"]
        invs == IF level = "invoice" THEN [calls -> InvoiceAnswers] ELSE {none}
        falls(inv) == \E i \in calls : inv[i] \in {"raise", "R5"}
        pagesFor(inv) == IF level # "invoice" THEN [pages -> ExtractAnswers]
                         ELSE IF falls(inv) THEN [pages -> FallbackAnswers]
                         ELSE {quiet}
    IN UNION { { ExtractOracle("ok", ok, cls, "ok", inv, page) :
                   cls \in classes, page \in pagesFor(inv) } : inv \in invs }
       \cup { ExtractOracle("missing", ok, cls, "ok", none, quiet) : cls \in classes }
       \cup { ExtractOracle("ok", blank, cls, "ok", none, page) :
                   cls \in classes, page \in [pages -> {"R1", "R4"}] }
       \cup { ExtractOracle("ok", ok, cls, db, none, page) :
                   cls \in classes, db \in {"fail", "raise"}, page \in [pages -> {"R2"}] }

\* the page numbers a stage entered with ctx will process
StagePages(stage, ctx, total_pages) ==
    IF ctx.pages.t \notin {"none", "str"} THEN <<1>>
    ELSE IF stage = "extract_invoice_data" THEN TextPageNumbers(ctx, total_pages)
    ELSE IF ctx.invoice_path.kind = "str" /\ FileExt(ctx.invoice_path.name) = ".pdf"
    THEN ImagePageNumbers(ctx, total_pages)
    ELSE <<1>>

(***************************************************************************)
(* The state machine.                                                      *)
(*                                                                         *)
(* pc is where control is: "process_main" (called, nothing done), a node   *)
(* of the graph, "END" (the graph ended), "raised" (an exception left a    *)
(* node and agent_graph.invoke), "process_invoice" (process_invoice has    *)
(* returned or raised into process_main) and "returned".  trace, llmCalls  *)
(* and ckpts record the nodes run, the LLM calls issued and the status     *)
(* writes attempted; result is what the driver last handed back.           *)
(***************************************************************************)
VARIABLES pc, req, env, ctx, trace, llmCalls, ckpts, result

vars == <<pc, req, env, ctx, trace, llmCalls, ckpts, result>>

NoResult == [kind |-> "none", out |-> NoOutput]

Init ==
    /\ \E r \in Runs : req = r.req /\ env = r.env
    /\ pc = "process_main"
    /\ ctx = InitialState(req)
    /\ trace = <<>>
    /\ llmCalls = <<>>
    /\ ckpts = <<>>
    /\ result = NoResult

\* a node ran with outcome r
Ran(stage, r) ==
    /\ pc' = r.goto
    /\ ctx' = r.ctx
    /\ trace' = Append(trace, stage)
    /\ llmCalls' = llmCalls \o r.calls
    /\ ckpts' = ckpts \o r.writes
    /\ UNCHANGED <<req, env, result>>

\* process_main up to agent_graph.invoke
ProcessMain ==
    /\ pc = "process_main"
    /\ IF ParseFailure(req)
       THEN /\ pc' = "returned"
            /\ result' = Returned(ErrorOutput("Error parsing invoice JSON"))
            /\ UNCHANGED ctx
       ELSE /\ pc' = "parse_message"
            /\ ctx' = InitialState(req)
            /\ UNCHANGED result
    /\ UNCHANGED <<req, env, trace, llmCalls, ckpts>>

ParseMessage ==
    /\ pc = "parse_message"
    /\ Ran("parse_message", parse_message(ctx))

IdentifySupplier ==
    /\ pc = "identify_supplier"
    /\ \E o \in IdentifyOracles :
          Ran("identify_supplier", identify_supplier(ctx, o, env.pdf2image))

ExtractCountryCodes ==
    /\ pc = "extract_country_codes"
    /\ \E o \in CountryOracles :
          Ran("extract_country_codes", extract_country_codes(ctx, o))

ExtractInvoiceData ==
    /\ pc = "extract_invoice_data"
    /\ \E o \in ExtractOracles(StagePages("extract_invoice_data", ctx, env.total_pages),
                               ProcessingLevel(ctx)) :
          Ran("extract_invoice_data",
              extract_invoice_data(ctx, o, Registry(env.registry), env.total_pages))

ExtractInvoiceDataImage ==
    /\ pc = "extract_invoice_data_image"
    /\ \E o \in ExtractOracles(StagePages("extract_invoice_data_image", ctx, env.total_pages),
                               ProcessingLevel(ctx)) :
          Ran("extract_invoice_data_image",
              extract_invoice_data_image(ctx, o, Registry(env.registry), env.total_pages,
                                         env.pdf2image))

MergeInvoiceData ==
    /\ pc = "merge_invoice_data"
    /\ Ran("merge_invoice_data", merge_invoice_data(ctx))

PrepareResponse ==
    /\ pc = "prepare_response"
    /\ Ran("prepare_response", prepare_response(ctx))

HandleError ==
    /\ pc = "handle_error"
    /\ \E db \in DbOutcomes : Ran("handle_error", handle_error(ctx, db))

\* process_invoice from the return of agent_graph.invoke on
ProcessInvoice ==
    /\ pc \in {"END", "raised"}
    /\ \E write \in {"ok", "raise"} :
          result' = process_invoice(req, ctx, pc = "raised", write)
    /\ pc' = "process_invoice"
    /\ UNCHANGED <<req, env, ctx, trace, llmCalls, ckpts>>

\* process_main from the return of process_invoice on
ProcessMainReturn ==
    /\ pc = "process_invoice"
    /\ \E db \in {"ok", "raise"} :
          /\ result' = process_main(req, result, db)
          /\ ckpts' = IF result.kind = "value" /\ ~req.skip_db_insert
                         /\ result.out.status = "success" /\ req.transaction_id # ""
                      THEN Append(ckpts, Write("Extracted", req.transaction_id, db))
                      ELSE ckpts
    /\ pc' = "returned"
    /\ UNCHANGED <<req, env, ctx, trace, llmCalls>>

Next ==
    \/ ProcessMain
    \/ ParseMessage
    \/ IdentifySupplier
    \/ ExtractCountryCodes
    \/ ExtractInvoiceData
    \/ ExtractInvoiceDataImage
    \/ MergeInvoiceData
    \/ PrepareResponse
    \/ HandleError
    \/ ProcessInvoice
    \/ ProcessMainReturn

Spec == Init /\ [][Next]_vars

(***************************************************************************)
(* The stage contract: each node of the graph entered on its own, with a   *)
(* context that any earlier part of a run may have left and with a context *)
(* that carries an error.                                                  *)
(***************************************************************************)
Stages ==
    {"parse_message", "identify_supplier", "extract_country_codes",
     "extract_invoice_data", "extract_invoice_data_image", "merge_invoice_data",
     "prepare_response"}

\* the context parse_message leaves for the base request
ParsedContext == parse_message(InitialState(BaseRequest)).ctx

\* ... and identify_supplier after it, on the text or the vision path
IdentifiedContext(method) ==
    [ParsedContext EXCEPT !.supplier_name = S("Acme Corp"), !.brand_name = Str(Acme),
                          !.supplier_address = S("1 Main St, US"),
                          !.status = "supplier_extracted", !.extraction_method = method]

\* ... and extract_country_codes after that
LocatedContext(method) ==
    [IdentifiedContext(method) EXCEPT !.supplier_country_code = Str(US),
                                      !.region = Str(RegionStr("NA")),
                                      !.status = "country_codes_extracted"]

EntryContexts ==
    LET reached == {InitialState(BaseRequest), ParsedContext, IdentifiedContext("text"),
                    LocatedContext("text"), LocatedContext("vision")}
    IN reached \cup {[c EXCEPT !.status = "error", !.error = e] :
                        c \in reached, e \in {"", "Failed earlier"}}

InitStage ==
    /\ req = BaseRequest
    /\ env = Env(TRUE, "full")
    /\ pc \in Stages
    /\ ctx \in EntryContexts
    /\ trace = <<>>
    /\ llmCalls = <<>>
    /\ ckpts = <<>>
    /\ result = NoResult

NextStage ==
    \/ ParseMessage
    \/ IdentifySupplier
    \/ ExtractCountryCodes
    \/ ExtractInvoiceData
    \/ ExtractInvoiceDataImage
    \/ MergeInvoiceData
    \/ PrepareResponse

SpecStage == InitStage /\ [][NextStage]_vars

(***************************************************************************)
(* Properties.                                                             *)
(***************************************************************************)
HasStage(stage) == \E i \in DOMAIN trace : trace[i] = stage

LastStage == IF trace = <<>> THEN "" ELSE trace[Len(trace)]

\* the calls of the extraction stage: page classification and data extraction
ExtractionCalls ==
    SeqFilter(LAMBDA c : c.kind \notin {"supplier_text", "supplier_vision", "country",
                                       "country_fallback"}, llmCalls)

ClassifyCallsMade ==
    SeqFilter(LAMBDA c : c.kind \in {"classify_text", "classify_image"}, llmCalls)

\* C1: for every request, and whatever the stages, the LLM, the store and the
\* output-file write do, process_main returns a value whose status is
\* 'success' or 'error'; no exception leaves process_main.
C1_AlwaysAnEnvelope ==
    pc = "returned" =>
        /\ result.kind = "value"
        /\ result.out.status \in {"success", "error"}

MiddleStages == Stages \ {"parse_message", "prepare_response"}

\* the step is a short circuit: on to handle_error, nothing else done
ShortCircuit ==
    /\ pc' = "handle_error"
    /\ ctx' = ctx
    /\ llmCalls' = llmCalls
    /\ ckpts' = ckpts

TextChain ==
    <<"parse_message", "identify_supplier", "extract_country_codes",
      "extract_invoice_data", "merge_invoice_data", "prepare_response">>

ImageChain == [TextChain EXCEPT ![4] = "extract_invoice_data_image"]

\* t is a prefix of one of the two chains, possibly followed by handle_error
ChainRun(t) ==
    \E c \in {TextChain, ImageChain} : \E n \in 0..Len(c) :
        \/ t = SubSeq(c, 1, n)
        \/ n > 0 /\ t = Append(SubSeq(c, 1, n), "handle_error")

\* C3: the stages visited are a prefix of parse_message, identify_supplier,
\* extract_country_codes, one of the two extraction stages, merge_invoice_data,
\* prepare_response, possibly followed by handle_error; no stage is visited
\* twice; the only transitions taken are to the next stage of that order, to
\* handle_error, and from prepare_response to the successful end.
C3_StagesInOrder ==
    /\ ChainRun(trace)
    /\ \A i, j \in DOMAIN trace : trace[i] = trace[j] => i = j
    /\ pc \in Stages \cup {"handle_error"} => ChainRun(Append(trace, pc))
    /\ pc = "END" =>
          \/ LastStage = "handle_error"
          \/ LastStage = "prepare_response" /\ ctx.output.status = "success"

\* a run through the vision chain has ended in success, another stage order
\* being possible for it had the routing ignored the extraction method
C3_Witness ==
    /\ pc = "END"
    /\ trace = ImageChain
    /\ ctx.output.status = "success"

\* C4: every run that ends with a failure envelope has executed handle_error,
\* and handle_error attempted the 'Failed' write keyed by the context id,
\* before the envelope was returned; nothing else produces a failure envelope.
C4_FailuresThroughHandleError ==
    (pc = "returned" /\ trace # <<>> /\ result.kind = "value"
                     /\ result.out.status = "error") =>
        /\ LastStage = "handle_error"
        /\ \E i \in DOMAIN ckpts : ckpts[i].kind = "Failed" /\ ckpts[i].key = ctx.id

\* C5: whenever handle_error is entered, the context has status 'error' and a
\* non-empty error string.
C5_HandleErrorSeesAnError ==
    pc = "handle_error" => ctx.status = "error" /\ ctx.error # ""

\* two outcomes of a stage that differ at most in what the store did
SameButStore(r1, r2) ==
    /\ r1.ctx = r2.ctx
    /\ r1.goto = r2.goto
    /\ r1.calls = r2.calls
    /\ Len(r1.writes) = Len(r2.writes)
    /\ \A i \in DOMAIN r1.writes :
          r1.writes[i].kind = r2.writes[i].kind /\ r1.writes[i].key = r2.writes[i].key

\* the answers an extraction stage is tried with under each store outcome
StoreTrials(page_numbers) ==
    {ExtractOracle("ok", [q \in Range(page_numbers) |-> "ok"], cls, "ok",
                   [i \in 1..Len(page_numbers) |-> "R4"],
                   [q \in Range(page_numbers) |-> "R2"]) :
        cls \in [Range(page_numbers) -> ClassifyAnswers]}

\* C6: whether the 'Received', 'Processing' and 'Failed' writes succeed,
\* report failure or raise changes neither the stage that follows, nor the
\* context (its status and error, and the output built from it), nor the LLM
\* calls: each stage that writes leaves the same outcome under every store
\* outcome.
C6_WritesAreBestEffort ==
    /\ pc = "extract_country_codes" =>
          \A o \in CountryOracles : \A db \in DbOutcomes :
              SameButStore(extract_country_codes(ctx, o),
                           extract_country_codes(ctx, [o EXCEPT !.db = db]))
    /\ pc = "extract_invoice_data" =>
          \A o \in StoreTrials(StagePages(pc, ctx, env.total_pages)) :
          \A db \in DbOutcomes :
              SameButStore(
                  extract_invoice_data(ctx, o, Registry(env.registry), env.total_pages),
                  extract_invoice_data(ctx, [o EXCEPT !.db = db], Registry(env.registry),
                                       env.total_pages))
    /\ pc = "extract_invoice_data_image" =>
          \A o \in StoreTrials(StagePages(pc, ctx, env.total_pages)) :
          \A db \in DbOutcomes :
              SameButStore(
                  extract_invoice_data_image(ctx, o, Registry(env.registry),
                                             env.total_pages, env.pdf2image),
                  extract_invoice_data_image(ctx, [o EXCEPT !.db = db],
                                             Registry(env.registry), env.total_pages,
                                             env.pdf2image))
    /\ pc = "handle_error" =>
          \A db \in DbOutcomes : SameButStore(handle_error(ctx, "ok"), handle_error(ctx, db))

\* a run has succeeded although its 'Received' write raised and its
\* 'Processing' write reported failure
C6_Witness ==
    /\ pc = "returned"
    /\ result.kind = "value"
    /\ result.out.status = "success"
    /\ \E i \in DOMAIN ckpts : ckpts[i].kind = "Received" /\ ckpts[i].db = "raise"
    /\ \E i \in DOMAIN ckpts : ckpts[i].kind = "Processing" /\ ckpts[i].db = "fail"

\* the record merge_invoice_data made of the i-th collected invoice
MergedRecord(i) ==
    IF Len(ctx.invoice_collections) = 1 THEN ctx.invoice_data ELSE ctx.all_invoices[i]

\* the page and batch calls made for invoice inv, in order
PartCalls(inv) ==
    SeqFilter(LAMBDA c : c.inv = inv /\ c.kind \in {"extract_page", "extract_page_image",
                                                    "extract_batch"}, llmCalls)

\* field f of the merged header is what the answer resp gave for it
TakenFrom(header, f, resp) ==
    LET given == Answer(ctx.invoice_schema, resp).h
    IN (f \in DOMAIN given /\ given[f] # None) => Get(header, f) = given[f]

\* C7: for every invoice that spans more than one page (page level) or more
\* than one batch (invoice level), on the text and on the vision path, after
\* the merge total, subtotal and tax are the values extracted from the last
\* page or batch of the invoice, whatever earlier pages or batches gave.
C7_LastPageWins ==
    pc = "prepare_response" =>
        \A i \in DOMAIN ctx.invoice_collections :
            LET calls == PartCalls(ctx.invoice_collections[i].inv)
            IN (Len(calls) > 1 /\ calls[Len(calls)].resp # "raise") =>
                  \A f \in {"total", "subtotal", "tax"} :
                      TakenFrom(MergedRecord(i).h, f, calls[Len(calls)].resp)

\* the records merge_invoice_data has produced
MergedRecords ==
    IF ~ctx.invoice_data.present THEN {}
    ELSE {ctx.invoice_data} \cup Range(ctx.all_invoices)

\* C8: every record merge_invoice_data produces has no header key outside the
\* schema's top-level properties, other than line_items and the keys that
\* start with "_", and none of its line items has a key outside the schema's
\* line-item properties.
C8_MergedWithinSchema ==
    \A rec \in MergedRecords :
        /\ \A k \in DOMAIN rec.h :
              k \in ctx.invoice_schema.props \/ k \in {"_source_page", "_batch_num",
                                                       "_page_tracking", "_conf"}
        /\ \A j \in DOMAIN rec.li : DOMAIN rec.li[j] \subseteq ctx.invoice_schema.items

\* a merge has dropped header keys and line-item keys the schema does not
\* declare
C8_Witness ==
    /\ ctx.invoice_data.present
    /\ ctx.invoice_schema = NarrowSchema
    /\ \E i \in DOMAIN ctx.invoice_collections :
          /\ {"region", "note"} \subseteq DOMAIN ctx.invoice_collections[i].header
          /\ \E j \in DOMAIN ctx.invoice_collections[i].line_items :
                "sku" \in DOMAIN ctx.invoice_collections[i].line_items[j]

\* the scenario of C9: two pages, both classified INV-1, page 1 answered by R1
\* and page 2 by R2, extracted page by page from text against the full schema
C9_Scenario ==
    /\ ctx.invoice_schema = FullSchema
    /\ ExtractionCalls =
          <<CallR("classify_text", "", <<PageStr(1)>>, "INV-1"),
            CallR("classify_text", "", <<PageStr(2)>>, "INV-1"),
            CallR("extract_page", "INV-1", <<PageStr(1)>>, "R1"),
            CallR("extract_page", "INV-1", <<PageStr(2)>>, "R2")>>

\* line items A and B as the output holds them
OutputItemA ==
    ("description" :> S("A")) @@ ("quantity" :> PyInt(2)) @@ ("amount" :> PyFloat(105, 1))

OutputItemB ==
    ("description" :> S("B")) @@ ("quantity" :> PyInt(1)) @@ ("amount" :> PyInt(3))

\* the output holds the one invoice of the scenario
C9_Output(out) ==
    /\ out.status = "success"
    /\ Len(out.invoices) = 1
    /\ Get(out.invoices[1].h, "invoice_number") = S("INV-1")
    /\ Get(out.invoices[1].h, "issue_date") = S("2024-01-01")
    /\ Get(out.invoices[1].h, "total") = PyFloat(123456, 2)
    /\ out.invoices[1].li = <<OutputItemA, OutputItemB>>

\* C9: in that scenario the final output holds exactly one invoice, with
\* invoice_number 'INV-1', issue_date '2024-01-01', the number 1234.56 as
\* total and the line items A, B in that order; while collected, A is tagged
\* with page 1 and B with page 2.
C9_TwoPagesOneInvoice ==
    C9_Scenario =>
        /\ Len(ctx.invoice_collections) = 1
        /\ ctx.invoice_collections[1].line_items =
              <<Put(OutputItemA, "_source_page", Str(PageStr(1))),
                Put(OutputItemB, "_source_page", Str(PageStr(2)))>>
        /\ pc = "END" => C9_Output(ctx.output)
        /\ (pc = "returned" /\ result.kind = "value" /\ result.out.status = "success") =>
              C9_Output(result.out)

\* the scenario has run to the end and its output was returned
C9_Witness ==
    /\ C9_Scenario
    /\ pc = "returned"
    /\ result.kind = "value"
    /\ result.out.status = "success"
    /\ Len(result.out.invoices) = 1

\* C10: on the text and on the vision path, when the classification of every
\* processed page answers 'unknown', the pages are grouped into exactly one
\* group, keyed 'unknown', that lists all processed pages.
C10_AllUnknownOneGroup ==
    (/\ pc = "merge_invoice_data"
     /\ ClassifyCallsMade # <<>>
     /\ \A i \in DOMAIN ClassifyCallsMade : LowerName(ClassifyCallsMade[i].resp) = "unknown") =>
        /\ Len(ctx.invoice_collections) = 1
        /\ ctx.invoice_collections[1].inv = "unknown"
        /\ ctx.invoice_collections[1].pages =
              [i \in DOMAIN ClassifyCallsMade |-> ClassifyCallsMade[i].pages[1]]

\* two pages of a scanned PDF were both classified 'unknown' and grouped
C10_Witness ==
    /\ pc = "merge_invoice_data"
    /\ LastStage = "extract_invoice_data_image"
    /\ Len(ClassifyCallsMade) = 2
    /\ \A i \in DOMAIN ClassifyCallsMade : ClassifyCallsMade[i].resp = "unknown"
    /\ Len(ctx.invoice_collections) = 1
    /\ Len(ctx.invoice_collections[1].pages) = 2

(***************************************************************************)
(* Page selection on its own: the pages field of the state resolved        *)
(* against a page count by each extraction stage.  req carries the pages   *)
(* field, env the page count, result the page numbers resolved.            *)
(***************************************************************************)
MaxSpecLen == 3

MaxTotalPages == 4

PageSpecChars == {"1", "3", "9", "-", ",", "x"}

\* every string of at most n characters of chars
StringsUpTo(chars, n) == UNION {[1..k -> chars] : k \in 0..n}

ExampleSpec == <<"3", "-", "5", ",", "8">>

PageSpecs == StringsUpTo(PageSpecChars, MaxSpecLen) \cup {FirstSpec, AllSpec, ExampleSpec}

PageCounts == 1..MaxTotalPages \cup {10}

InitPages ==
    /\ \E spec \in PageSpecs : req = [BaseRequest EXCEPT !.pages = Str(spec)]
    /\ \E n \in PageCounts : env = [Env(TRUE, "full") EXCEPT !.total_pages = n]
    /\ pc = "pages"
    /\ ctx = parse_message(InitialState(req)).ctx
    /\ trace = <<>>
    /\ llmCalls = <<>>
    /\ ckpts = <<>>
    /\ result = NoResult

\* extract_invoice_data resolves the pages
ResolveTextPages ==
    /\ pc = "pages"
    /\ pc' = "text_pages"
    /\ result' = Returned(TextPageNumbers(ctx, env.total_pages))
    /\ UNCHANGED <<req, env, ctx, trace, llmCalls, ckpts>>

\* extract_invoice_data_image resolves the pages
ResolveImagePages ==
    /\ pc = "pages"
    /\ pc' = "image_pages"
    /\ result' = Returned(ImagePageNumbers(ctx, env.total_pages))
    /\ UNCHANGED <<req, env, ctx, trace, llmCalls, ckpts>>

NextPages == ResolveTextPages \/ ResolveImagePages

SpecPages == InitPages /\ [][NextPages]_vars

\* the pages a spec that is neither 'first' nor 'all' names within 1..n, in
\* the order written; <<>> when a token is not a number or an a-b range
NamedPages(spec, n) ==
    LET toks == SplitOn(spec, ",")
    IN IF \E i \in DOMAIN toks : TokenFails(toks[i]) THEN <<>>
       ELSE SeqFilter(LAMBDA q : q \in 1..n, ExpandTokens(toks))

\* the page list the pages spec stands for in a document of n pages
ResolvedPages(spec, n) ==
    IF spec = FirstSpec THEN <<1>>
    ELSE IF spec = AllSpec \/ NamedPages(spec, n) = <<>> THEN [i \in 1..n |-> i]
    ELSE NamedPages(spec, n)

\* C11: for every page count and every pages spec, on the text and on the
\* vision path, the resolved page list is [1] for 'first', [1..N] for 'all',
\* otherwise the expansion of the numbers and a-b ranges restricted to 1..N
\* (N = 10 and '3-5,8' give [3,4,5,8]), and [1..N] whenever the spec is empty,
\* unparsable or selects no page in 1..N.
C11_PagesResolved ==
    /\ pc \in {"text_pages", "image_pages"} =>
          result.out = ResolvedPages(ctx.pages.s, env.total_pages)
    /\ (pc \in {"text_pages", "image_pages"} /\ ctx.pages.s = ExampleSpec
        /\ env.total_pages = 10) => result.out = <<3, 4, 5, 8>>

\* the text path alone resolves every spec as C11 says
C11_TextPagesResolved ==
    pc = "text_pages" => result.out = ResolvedPages(ctx.pages.s, env.total_pages)

(***************************************************************************)
(* The normalizer on its own: parse_monetary_value applied to one string.  *)
(* req.pages carries the string, result the (value, currency) returned.    *)
(***************************************************************************)
MaxMoneyLen == 4

MoneyChars == {"1", "5", ",", ".", " ", "EURO", "x"}

EuropeanExample == <<"5", " ", "1", "2", "3", ",", "4", "5", " ", "EURO">>

UsExample == <<"5", ",", "1", "2", "3", ".", "4", "5">>

WordsExample == <<"n", "o", "t", " ", "a", " ", "n", "u", "m", "b", "e", "r">>

CodeExample == <<"U", "S", "D", " ", "1", "5">>

MoneyStrings ==
    StringsUpTo(MoneyChars, MaxMoneyLen)
        \cup {EuropeanExample, UsExample, WordsExample, CodeExample}

InitMoney ==
    /\ \E cs \in MoneyStrings : req = [BaseRequest EXCEPT !.pages = Str(cs)]
    /\ env = Env(TRUE, "full")
    /\ pc = "money"
    /\ ctx = InitialState(req)
    /\ trace = <<>>
    /\ llmCalls = <<>>
    /\ ckpts = <<>>
    /\ result = NoResult

\* parse_monetary_value(value) is called
ParseMonetaryValue ==
    /\ pc = "money"
    /\ pc' = "money_parsed"
    /\ result' = Returned(parse_monetary_value(req.pages))
    /\ UNCHANGED <<req, env, ctx, trace, llmCalls, ckpts>>

\* ... and its result stored by clean_numeric_values as the field 'total'
CleanTotal ==
    /\ pc = "money"
    /\ pc' = "total_cleaned"
    /\ result' = Returned(CleanFields(("total" :> req.pages), <<"total">>, None))
    /\ UNCHANGED <<req, env, ctx, trace, llmCalls, ckpts>>

NextMoney == ParseMonetaryValue \/ CleanTotal

SpecMoney == InitMoney /\ [][NextMoney]_vars

\* the reference of C12: the string with its currency marker stripped ...
ReferenceCleaned(cs) == Strip(RemoveCurrency(cs, 1))

\* ... the first rule that matches it ...
ReferenceRule(cleaned) ==
    LET comma == HasChar(cleaned, ",")
        period == HasChar(cleaned, ".")
        space == HasChar(cleaned, " ")
    IN IF comma /\ period THEN 1
       ELSE IF space /\ comma THEN 2
       ELSE IF comma THEN 3
       ELSE IF period THEN 4
       ELSE IF space THEN 5
       ELSE 6

\* ... the numeral that rule reads ...
ReferenceNumeral(cleaned) ==
    LET k == ReferenceRule(cleaned)
    IN IF k = 1 THEN RemoveChar(cleaned, ",")
       ELSE IF k = 2 THEN ReplaceChar(RemoveChar(cleaned, " "), ",", ".")
       ELSE IF k = 3 THEN ReplaceChar(cleaned, ",", ".")
       ELSE IF k = 5 THEN RemoveChar(cleaned, " ")
       ELSE cleaned

\* ... and whether it parses (a decimal number under rules 1 to 4, a whole
\* number under rules 5 and 6)
ReferenceParses(cleaned) ==
    IF ReferenceRule(cleaned) <= 4 THEN FloatParses(ReferenceNumeral(cleaned))
    ELSE IntParses(ReferenceNumeral(cleaned))

ReferenceNumber(cleaned) ==
    IF ReferenceRule(cleaned) <= 4 THEN FloatValue(ReferenceNumeral(cleaned))
    ELSE PyInt(IntValue(ReferenceNumeral(cleaned)))

\* C12: for every input string the normalizer returns the number the first
\* matching rule parses from the string without its currency marker, together
\* with the detected currency; when that rule's parse fails it returns the
\* original input string unchanged ('5 123,45 EURO' gives (5123.45, EURO),
\* '5,123.45' gives (5123.45, none), 'not a number' gives itself and none).
C12_NormalizerMatchesReference ==
    pc = "money_parsed" =>
        /\ ReferenceParses(ReferenceCleaned(req.pages.s)) =>
              /\ result.out.value = ReferenceNumber(ReferenceCleaned(req.pages.s))
              /\ result.out.currency = CurrencyOf(FirstCurrency(req.pages.s, 1))
        /\ ~ReferenceParses(ReferenceCleaned(req.pages.s)) =>
              result.out.value = req.pages
        /\ req.pages.s = EuropeanExample =>
              result.out = [value |-> PyFloat(512345, 2), currency |-> Str(<<"EURO">>)]
        /\ req.pages.s = UsExample =>
              result.out = [value |-> PyFloat(512345, 2), currency |-> None]
        /\ req.pages.s = WordsExample =>
              result.out = [value |-> Str(WordsExample), currency |-> None]

\* every string that parses gives the reference's number and currency
C12_ParsedAsReference ==
    (pc = "money_parsed" /\ ReferenceParses(ReferenceCleaned(req.pages.s))) =>
        /\ result.out.value = ReferenceNumber(ReferenceCleaned(req.pages.s))
        /\ result.out.currency = CurrencyOf(FirstCurrency(req.pages.s, 1))

(***************************************************************************)
(* The fallback region resolver on its own: determine_region_fallback      *)
(* applied to one country code.  req.pages carries the code, result the    *)
(* region returned.                                                        *)
(***************************************************************************)
MaxCodeLen == 2

CountryCodes ==
    StringsUpTo(UpperLetters, MaxCodeLen) \cup {<<"u", "s">>, <<"d", "e">>, <<"b", "r">>}

InitRegion ==
    /\ \E code \in CountryCodes : req = [BaseRequest EXCEPT !.pages = Str(code)]
    /\ env = Env(TRUE, "full")
    /\ pc = "region"
    /\ ctx = InitialState(req)
    /\ trace = <<>>
    /\ llmCalls = <<>>
    /\ ckpts = <<>>
    /\ result = NoResult

\* determine_region_fallback(country_code) is called
DetermineRegionFallback ==
    /\ pc = "region"
    /\ pc' = "region_resolved"
    /\ result' = Returned(determine_region_fallback(req.pages.s))
    /\ UNCHANGED <<req, env, ctx, trace, llmCalls, ckpts>>

NextRegion == DetermineRegionFallback

SpecRegion == InitRegion /\ [][NextRegion]_vars

RegionNames == {"NA", "EMEA", "APAC", "LATAM"}

\* the static country set of a region
CountriesOf(name) ==
    CASE name = "NA" -> na_countries
      [] name = "EMEA" -> emea_countries
      [] name = "APAC" -> apac_countries
      [] OTHER -> latam_countries

\* the regions whose set holds the code
RegionsOf(code) == {name \in RegionNames : Upper(code) \in CountriesOf(name)}

\* C13: the four static country sets are pairwise disjoint, so for every
\* country code the resolver returns the region of the one set that contains
\* it, whatever the order the sets are tested in, and UNKNOWN for a code in
\* none of the sets and for an empty code.
C13_OneRegionPerCountry ==
    /\ \A a, b \in RegionNames : a # b => CountriesOf(a) \cap CountriesOf(b) = {}
    /\ pc = "region_resolved" =>
          /\ Cardinality(RegionsOf(req.pages.s)) <= 1
          /\ \A name \in RegionsOf(req.pages.s) : result.out = RegionStr(name)
          /\ RegionsOf(req.pages.s) = {} => result.out = RegionStr("UNKNOWN")
          /\ req.pages.s = <<>> => result.out = RegionStr("UNKNOWN")

\* a code of the EMEA set has been resolved to its region
C13_Witness ==
    /\ pc = "region_resolved"
    /\ req.pages.s = <<"G", "B">>
    /\ RegionsOf(req.pages.s) = {"EMEA"}
    /\ result.out = RegionStr("EMEA")

(***************************************************************************)
(* Two runs of process_invoice interleaved in one process, as far as the   *)
(* module-level agent_logger is concerned.  Here every variable but env    *)
(* and ckpts is a function of the run: pc[r] is where run r is ("start",   *)
(* "created" once the graph is built, "invoking" once set_state is called, *)
(* "done" once the session log is saved), req[r] its transaction id,       *)
(* ctx[r] its initial_state dict (id and session_logs), result[r] the      *)
(* number of entries it has logged; env is agent_logger.current_state (the *)
(* run whose dict it refers to, "none" at import) and ckpts the rows       *)
(* inserted into agent_control_center_logs.                                *)
(***************************************************************************)
MaxLogEntries == 2

LogRuns == {"A", "B"}

TransactionOf(r) == IF r = "A" THEN "T1" ELSE "T2"

InitLogger ==
    /\ pc = [r \in LogRuns |-> "start"]
    /\ req = [r \in LogRuns |-> TransactionOf(r)]
    /\ ctx = [r \in LogRuns |-> [id |-> req[r], session_logs |-> <<>>]]
    /\ env = "none"
    /\ result = [r \in LogRuns |-> 0]
    /\ ckpts = <<>>
    /\ trace = <<>>
    /\ llmCalls = <<>>

\* add_to_session_log called by run r: the entry goes to the dict
\* current_state refers to, if any
add_to_session_log(r, current_state, states, n) ==
    IF current_state = "none" THEN states
    ELSE [states EXCEPT ![current_state].session_logs = Append(@, [by |-> r, n |-> n])]

\* run r logs "Started thread" before it has called set_state
LogStarted(r) ==
    /\ pc[r] = "start"
    /\ pc' = [pc EXCEPT ![r] = "created"]
    /\ ctx' = add_to_session_log(r, env, ctx, result[r] + 1)
    /\ result' = [result EXCEPT ![r] = @ + 1]
    /\ UNCHANGED <<req, env, ckpts, trace, llmCalls>>

\* agent_logger.set_state(initial_state)
SetState(r) ==
    /\ pc[r] = "created"
    /\ pc' = [pc EXCEPT ![r] = "invoking"]
    /\ env' = r
    /\ UNCHANGED <<req, ctx, result, ckpts, trace, llmCalls>>

\* a log_* call of run r while its graph runs
LogEntry(r) ==
    /\ pc[r] = "invoking"
    /\ result[r] <= MaxLogEntries
    /\ ctx' = add_to_session_log(r, env, ctx, result[r] + 1)
    /\ result' = [result EXCEPT ![r] = @ + 1]
    /\ UNCHANGED <<pc, req, env, ckpts, trace, llmCalls>>

\* agent_logger.save_session_logs() at the end of run r
SaveSessionLogs(r) ==
    /\ pc[r] = "invoking"
    /\ pc' = [pc EXCEPT ![r] = "done"]
    /\ ckpts' = IF env = "none" \/ ctx[env].session_logs = <<>> \/ ctx[env].id = ""
                THEN ckpts
                ELSE Append(ckpts, [by |-> r, transaction_id |-> ctx[env].id,
                                    log |-> ctx[env].session_logs])
    /\ UNCHANGED <<req, env, ctx, result, trace, llmCalls>>

NextLogger ==
    \E r \in LogRuns : LogStarted(r) \/ SetState(r) \/ LogEntry(r) \/ SaveSessionLogs(r)

SpecLogger == InitLogger /\ [][NextLogger]_vars

\* C14: when two runs are interleaved neither reads or writes in-process
\* state written by the other: the session log saved for a run is saved under
\* that run's id and holds only entries that run logged, and the session_logs
\* of a run's state hold only its own entries.
C14_RunsShareNoState ==
    /\ \A i \in DOMAIN ckpts :
          /\ ckpts[i].transaction_id = req[ckpts[i].by]
          /\ \A j \in DOMAIN ckpts[i].log : ckpts[i].log[j].by = ckpts[i].by
    /\ \A r \in LogRuns : \A j \in DOMAIN ctx[r].session_logs :
          ctx[r].session_logs[j].by = r

\* run on its own (the other has not started), a run saves its own entries
\* under its own id
C14_AloneIsolated ==
    \A i \in DOMAIN ckpts :
        (\A r \in LogRuns \ {ckpts[i].by} : pc[r] = "start") =>
            /\ ckpts[i].transaction_id = req[ckpts[i].by]
            /\ \A j \in DOMAIN ckpts[i].log : ckpts[i].log[j].by = ckpts[i].by

\* the keys of the model that start with "_"
UnderscoreKeys == {"_source_page", "_batch_num", "_page_tracking", "_conf"}

\* no key of the invoice's header or of its line items starts with "_"
NoUnderscoreKey(inv) ==
    /\ DOMAIN inv.h \cap UnderscoreKeys = {}
    /\ \A j \in DOMAIN inv.li : DOMAIN inv.li[j] \cap UnderscoreKeys = {}

\* C15: in every success output of the pipeline, as prepare_response builds
\* it and as process_main returns it, no key starting with "_" occurs in
\* invoice_data or in any element of invoices, header or line items.
C15_NoInternalKeyInOutput ==
    /\ ctx.output.status = "success" =>
          \A i \in DOMAIN ctx.output.invoices : NoUnderscoreKey(ctx.output.invoices[i])
    /\ (pc = "returned" /\ result.kind = "value" /\ result.out.status = "success") =>
          \A i \in DOMAIN result.out.invoices : NoUnderscoreKey(result.out.invoices[i])

\* a success output was returned for a merged record that carried
\* _page_tracking and an underscore key of the LLM answer, with line items
\* that were tagged with their page while collected
C15_Witness ==
    /\ pc = "returned"
    /\ result.kind = "value"
    /\ result.out.status = "success"
    /\ {"_page_tracking", "_conf"} \subseteq DOMAIN ctx.invoice_data.h
    /\ \E i \in DOMAIN ctx.invoice_collections :
          \E j \in DOMAIN ctx.invoice_collections[i].line_items :
              "_source_page" \in DOMAIN ctx.invoice_collections[i].line_items[j]

\* the (country, brand, method) triples the resolver is asked for
ResolverCountries == {Str(US), Str(<<"D", "E">>), None}

ResolverBrands == {Str(Acme), Str(DefaultBrand), Str(<<>>), Str(<<"N", "V">>)}

ResolverMethods == {"text", "image"}

\* the active rows of the registry for a country, a brand as stored, a method
ActiveRows(rows, country_code, brand, method) ==
    IF ~IsStr(country_code) THEN {}
    ELSE {r \in rows : /\ r.country_code = country_code.s
                       /\ r.brand_name = brand
                       /\ r.processing_method = method}

\* the configuration the brand is to get: its own, else the default one
ConfigurationFor(rows, country_code, brand_name, method) ==
    IF ActiveRows(rows, country_code, Lower(brand_name.s), method) # {}
    THEN ActiveRows(rows, country_code, Lower(brand_name.s), method)
    ELSE ActiveRows(rows, country_code, DefaultBrand, method)

\* the resolver answers with a configuration of ConfigurationFor, and raises
\* when there is none
ResolvedAsConfigured(rows, country_code, brand_name, method) ==
    IF ConfigurationFor(rows, country_code, brand_name, method) = {}
    THEN ~get_supplier_configuration(rows, country_code, brand_name, method).ok
    ELSE /\ get_supplier_configuration(rows, country_code, brand_name, method).ok
         /\ \E r \in ConfigurationFor(rows, country_code, brand_name, method) :
               get_supplier_configuration(rows, country_code, brand_name, method).schema
                   = r.schema

\* the processing method of the extraction stage the run is at
StageMethod == IF pc = "extract_invoice_data" THEN "text" ELSE "image"

\* an extraction stage is entered without an error status, for a brand that
\* was identified
AtExtraction ==
    /\ pc \in {"extract_invoice_data", "extract_invoice_data_image"}
    /\ ctx.status # "error"
    /\ Truthy(ctx.brand_name)

\* the registry holds no configuration for the triple of the stage
NothingConfigured ==
    ConfigurationFor(Registry(env.registry), ctx.supplier_country_code,
                     ctx.brand_name, StageMethod) = {}

C16_TextWitness ==
    /\ LastStage = "extract_invoice_data"
    /\ pc = "handle_error"
    /\ ctx.status = "error"
    /\ Truthy(ctx.brand_name)
    /\ ConfigurationFor(Registry(env.registry), ctx.supplier_country_code,
                        ctx.brand_name, "text") = {}
    /\ ExtractionCalls = <<>>

\* a brand's own configuration is preferred to the default one of its country
C16_OwnPreferred ==
    /\ AtExtraction
    /\ get_supplier_configuration(Registry(env.registry), ctx.supplier_country_code,
                                  ctx.brand_name, "text").schema = NarrowSchema
    /\ ActiveRows(Registry(env.registry), ctx.supplier_country_code, DefaultBrand,
                  "text") # {}

\* the checkpoint writes attempted for the transaction id of the request
WritesOfRequest == SeqFilter(LAMBDA w : w.key = req.transaction_id, ckpts)

\* the status the last of them set, "" when none was attempted
LastWriteAttempted ==
    IF WritesOfRequest = <<>> THEN "" ELSE WritesOfRequest[Len(WritesOfRequest)].kind

\* process_main has returned an envelope for a request that carries a
\* transaction id and is not in development mode
ReturnedWithId ==
    /\ pc = "returned"
    /\ result.kind = "value"
    /\ req.json = "object"
    /\ req.transaction_id # ""
    /\ ~req.skip_db_insert

\* C17: for every request carrying a transaction id and not in development
\* mode, when process_main returns, the last checkpoint write attempted for
\* that id is the 'Extracted' update if the returned status is 'success' and
\* the 'Failed' update if the returned status is 'error'; a run is never
\* returned as failed while its record was last set to 'Received' or
\* 'Processing'.
C17_LastWriteMatchesStatus ==
    ReturnedWithId =>
        /\ result.out.status = "success" => LastWriteAttempted = "Extracted"
        /\ result.out.status = "error" => LastWriteAttempted = "Failed"
        /\ result.out.status = "error" => LastWriteAttempted \notin {"Received", "Processing"}

\* what does hold: a run returned as successful has the 'Extracted' update as
\* its last write, and that write went through
C17_SuccessIsExtracted ==
    (ReturnedWithId /\ result.out.status = "success") =>
        /\ LastWriteAttempted = "Extracted"
        /\ WritesOfRequest[Len(WritesOfRequest)].db = "ok"

\* the header fields the claim ranges over
HeaderFields == (FullSchema.props \ {"line_items"}) \cup critical_header_fields

\* the fields the path of the call treats as financial
FinancialOf(c) ==
    IF c.kind = "extract_page_image" THEN image_financial_fields ELSE financial_fields

\* the extraction of the page or batch succeeded: the call returned and its
\* answer was stored
PartSucceeded(c) ==
    /\ c.resp # "raise"
    /\ c.kind = "extract_page_image" => Answer(ctx.invoice_schema, c.resp).liKind # "none"

\* what the page or batch gave for field f
GivenBy(c, f) == Get(Answer(ctx.invoice_schema, c.resp).h, f)

\* the page or batch succeeded with a non-empty value for f
Gives(c, f) == PartSucceeded(c) /\ Truthy(GivenBy(c, f))

\* the invoice was processed by pages or batches only: no single combined
\* call stored an answer for it
ByPartsOnly(inv) ==
    \A n \in DOMAIN llmCalls :
        (llmCalls[n].inv = inv /\ llmCalls[n].kind \in {"extract_invoice",
                                                        "extract_invoice_image"})
            => llmCalls[n].resp = "raise"

KeptAgainst(kind) ==
    /\ pc = "merge_invoice_data"
    /\ \E i \in DOMAIN ctx.invoice_collections :
          \E j, k \in DOMAIN PartCalls(ctx.invoice_collections[i].inv) :
              /\ j < k
              /\ PartCalls(ctx.invoice_collections[i].inv)[k].kind = kind
              /\ Gives(PartCalls(ctx.invoice_collections[i].inv)[j], "invoice_number")
              /\ Gives(PartCalls(ctx.invoice_collections[i].inv)[k], "invoice_number")
              /\ GivenBy(PartCalls(ctx.invoice_collections[i].inv)[j], "invoice_number")
                    # GivenBy(PartCalls(ctx.invoice_collections[i].inv)[k], "invoice_number")
              /\ Get(ctx.invoice_collections[i].header, "invoice_number")
                    = GivenBy(PartCalls(ctx.invoice_collections[i].inv)[j], "invoice_number")

C18_TextPageKept == KeptAgainst("extract_page")

C18_BatchKept == KeptAgainst("extract_batch")

\* the last stage run was an extraction stage at processingLevel 'invoice'
AfterInvoiceLevel ==
    /\ LastStage \in {"extract_invoice_data", "extract_invoice_data_image"}
    /\ pc \in {"merge_invoice_data", "handle_error"}
    /\ ProcessingLevel(ctx) = "invoice"

\* call n is an extraction call of the invoice level
InvoiceLevelCall(n) ==
    llmCalls[n].kind \in {"extract_invoice", "extract_invoice_image", "extract_batch"}

\* every page of call n is extracted on its own by a call made after n
PagedAfter(n) ==
    \A q \in Range(llmCalls[n].pages) :
        \E m \in (n + 1)..Len(llmCalls) :
            /\ llmCalls[m].kind \in {"extract_page", "extract_page_image"}
            /\ llmCalls[m].inv = llmCalls[n].inv
            /\ llmCalls[m].pages[Len(llmCalls[m].pages)] = q

\* after the invoice-level call n raised, its invoice and the invoices that
\* remained are processed page by page, and the method reported is per page
FellBack(n) ==
    /\ PagedAfter(n)
    /\ \A r \in (n + 1)..Len(llmCalls) : InvoiceLevelCall(r) => PagedAfter(r)
    /\ pc = "merge_invoice_data" =>
          ctx.extraction_method \in {"text_per_page", "vision_per_page"}

\* C19: under processingLevel = 'invoice', whenever an invoice's extraction
\* call raises (the single combined call, or any batch call when the invoice
\* is batched), that invoice is afterwards processed page by page, the
\* invoices that remain are processed page by page too, and the extraction
\* method reported is the per-page one.
C19_RaisedCallFallsBack ==
    AfterInvoiceLevel =>
        \A n \in DOMAIN llmCalls :
            (InvoiceLevelCall(n) /\ llmCalls[n].resp = "raise") => FellBack(n)

\* what does hold: the fallback follows a single combined call that raised
C19_CombinedCallFallsBack ==
    AfterInvoiceLevel =>
        \A n \in DOMAIN llmCalls :
            (llmCalls[n].kind \in {"extract_invoice", "extract_invoice_image"}
                /\ llmCalls[n].resp = "raise") => FellBack(n)

\* the extraction calls made for invoice inv, in order
ExtractCallsOf(inv) ==
    SeqFilter(LAMBDA c : c.inv = inv /\ c.kind \in {"extract_invoice", "extract_invoice_image",
                                                    "extract_batch", "extract_page",
                                                    "extract_page_image"}, llmCalls)

\* the extraction call succeeded
CallSucceeded(c) ==
    /\ c.resp # "raise"
    /\ c.kind \in {"extract_invoice_image", "extract_page_image"}
          => Response(c.resp).liKind # "none"

\* the number of line items the call returned, 0 when it did not succeed
ItemsReturned(c) == IF CallSucceeded(c) THEN Len(Response(c.resp).li) ELSE 0

\* the line items returned by the successful calls, each counted once
ItemsOnce(calls) == FoldLeft(LAMBDA n, c : n + ItemsReturned(c), 0, calls)

\* a successful invoice-level call of the invoice is followed by a call for
\* one of its pages
ExtractedAgain(inv) ==
    \E n, m \in DOMAIN llmCalls :
        /\ n < m
        /\ llmCalls[n].inv = inv
        /\ llmCalls[n].kind \in {"extract_invoice", "extract_invoice_image"}
        /\ CallSucceeded(llmCalls[n])
        /\ llmCalls[m].inv = inv
        /\ llmCalls[m].kind \in {"extract_page", "extract_page_image"}

\* C20: in every run and for every invoice, the line items returned by one
\* successful extraction call are added to that invoice's collected line
\* items exactly once; in particular, under processingLevel = 'invoice', an
\* invoice whose invoice-level extraction succeeded does not have its pages
\* extracted and its line items appended a second time when another
\* invoice's failure triggers the page-level fallback.
C20_ItemsAddedOnce ==
    pc = "merge_invoice_data" =>
        \A i \in DOMAIN ctx.invoice_collections :
            /\ ctx.invoice_collections[i].liKind = "list" =>
                  Len(ctx.invoice_collections[i].line_items)
                      = ItemsOnce(ExtractCallsOf(ctx.invoice_collections[i].inv))
            /\ ProcessingLevel(ctx) = "invoice" =>
                  ~ExtractedAgain(ctx.invoice_collections[i].inv)

\* what does hold: every successful call's line items are in the collection
\* once, the calls of the fallback pass included
C20_EachCallOnce ==
    pc = "merge_invoice_data" =>
        \A i \in DOMAIN ctx.invoice_collections :
            ctx.invoice_collections[i].liKind = "list" =>
                Len(ctx.invoice_collections[i].line_items)
                    = ItemsOnce(ExtractCallsOf(ctx.invoice_collections[i].inv))

\* an extraction stage has run to its end
AfterExtraction ==
    /\ LastStage \in {"extract_invoice_data", "extract_invoice_data_image"}
    /\ pc \in {"merge_invoice_data", "handle_error"}

\* the extraction call of one page or of one batch that raised
RaisedPart(c) ==
    /\ c.kind \in {"extract_page", "extract_page_image", "extract_batch"}
    /\ c.resp = "raise"

\* what a call that was stored gave for field f of the header
StoredValue(c, f) ==
    IF c.kind = "extract_invoice_image"
    THEN Get(clean_numeric_values(Response(c.resp)).h, f)
    ELSE GivenBy(c, f)

\* the call's answer was stored in the collection of its invoice
Stored(c) ==
    IF c.kind \in {"extract_invoice", "extract_invoice_image"} THEN CallSucceeded(c)
    ELSE PartSucceeded(c)

\* the values the stage itself puts into a header
InjectedValues ==
    {ctx.supplier_country_code, ctx.buyer_country_code, ctx.ship_to_country_code,
     ctx.region}

\* the collection e holds nothing of a call that raised: its header values
\* come from stored answers, its line items are those of the successful
\* calls, and its per-page data has a header for the stored parts only
NothingOfRaised(e) ==
    /\ \A f \in DOMAIN e.header :
          \/ e.header[f] \in InjectedValues
          \/ \E n \in DOMAIN ExtractCallsOf(e.inv) :
                /\ Stored(ExtractCallsOf(e.inv)[n])
                /\ e.header[f] = StoredValue(ExtractCallsOf(e.inv)[n], f)
    /\ e.liKind = "list" => Len(e.line_items) = ItemsOnce(ExtractCallsOf(e.inv))
    /\ Cardinality({i \in DOMAIN e.page_data : e.page_data[i].hasHeader})
          = Len(SeqFilter(PartSucceeded, PartCalls(e.inv)))

\* every page of the collection e was sent in an extraction call
AllPagesSent(e) ==
    \A q \in Range(e.pages) :
        \E n \in DOMAIN ExtractCallsOf(e.inv) :
            IF ExtractCallsOf(e.inv)[n].kind = "extract_page_image"
            THEN ExtractCallsOf(e.inv)[n].pages[Len(ExtractCallsOf(e.inv)[n].pages)] = q
            ELSE q \in Range(ExtractCallsOf(e.inv)[n].pages)

\* C21: when the extraction call of one page (page level) or one batch
\* raises, the invoice's accumulated header, line items and per-page data
\* are left as they were before that call, the remaining pages, batches and
\* invoices are still processed, and the stage transitions to
\* MergeInvoiceData, not to HandleError.
C21_RaisedPartContributesNothing ==
    (AfterExtraction /\ \E n \in DOMAIN llmCalls : RaisedPart(llmCalls[n])) =>
        /\ pc = "merge_invoice_data"
        /\ \A i \in DOMAIN ctx.invoice_collections :
              /\ NothingOfRaised(ctx.invoice_collections[i])
              /\ AllPagesSent(ctx.invoice_collections[i])

\* what does hold: the same when no single combined vision call came before
\* the page calls
C21_WithoutVisionFallback ==
    ( /\ AfterExtraction
      /\ \E n \in DOMAIN llmCalls : RaisedPart(llmCalls[n])
      /\ \A n \in DOMAIN llmCalls : llmCalls[n].kind # "extract_invoice_image" ) =>
        /\ pc = "merge_invoice_data"
        /\ \A i \in DOMAIN ctx.invoice_collections :
              /\ NothingOfRaised(ctx.invoice_collections[i])
              /\ AllPagesSent(ctx.invoice_collections[i])

(***************************************************************************)
(* The invoice groups of a pages spec: the pages resolved from the spec    *)
(* and grouped by the answers of the classification calls.                 *)
(***************************************************************************)
MaxGroupSpecLen == 3

MaxGroupPages == 3

ExamplePages == 8

GroupSpecChars == {"1", "2", "3", "-", ","}

\* '8,3-5' and '3-5,4'
UnorderedSpec == <<"8", ",", "3", "-", "5">>

RepeatingSpec == <<"3", "-", "5", ",", "4">>

InitGroups ==
    /\ \/ \E spec \in StringsUpTo(GroupSpecChars, MaxGroupSpecLen),
             n \in 1..MaxGroupPages :
             /\ req = [BaseRequest EXCEPT !.pages = Str(spec)]
             /\ env = [Env(TRUE, "full") EXCEPT !.total_pages = n]
       \/ \E spec \in {UnorderedSpec, RepeatingSpec} :
             /\ req = [BaseRequest EXCEPT !.pages = Str(spec)]
             /\ env = [Env(TRUE, "full") EXCEPT !.total_pages = ExamplePages]
    /\ pc = "pages"
    /\ ctx = parse_message(InitialState(req)).ctx
    /\ trace = <<>>
    /\ llmCalls = <<>>
    /\ ckpts = <<>>
    /\ result = NoResult

\* extract_invoice_data resolves the pages and groups them by invoice number
GroupTextPages ==
    /\ pc = "pages"
    /\ \E cls \in [Range(TextPageNumbers(ctx, env.total_pages)) -> ClassifyAnswers] :
          /\ result' = Returned(GroupPages(TextPageNumbers(ctx, env.total_pages), cls))
          /\ llmCalls' = ClassifyCalls("classify_text",
                                       TextPageNumbers(ctx, env.total_pages), cls)
    /\ pc' = "text_groups"
    /\ UNCHANGED <<req, env, ctx, trace, ckpts>>

\* extract_invoice_data_image does, every page converted to an image
GroupImagePages ==
    /\ pc = "pages"
    /\ \E cls \in [Range(ImagePageNumbers(ctx, env.total_pages)) -> ClassifyAnswers] :
          /\ result' = Returned(GroupPages(ImagePageNumbers(ctx, env.total_pages), cls))
          /\ llmCalls' = ClassifyCalls("classify_image",
                                       ImagePageNumbers(ctx, env.total_pages), cls)
    /\ pc' = "image_groups"
    /\ UNCHANGED <<req, env, ctx, trace, ckpts>>

NextGroups == GroupTextPages \/ GroupImagePages

SpecGroups == InitGroups /\ [][NextGroups]_vars

\* the pages have been grouped
Grouped == pc \in {"text_groups", "image_groups"}

\* the page list is in ascending numeric order
Ascending(pages) ==
    \A i, j \in DOMAIN pages : i < j => PageInt(pages[i]) <= PageInt(pages[j])

\* the page that page-level processing treats as the last one is the
\* highest-numbered page of the list
LastIsHighest(pages) ==
    \A i \in DOMAIN pages : PageInt(pages[i]) <= PageInt(pages[Len(pages)])

\* C22: for every pages spec, including specs that list pages out of order
\* such as '8,3-5', the page list of every invoice group is in ascending
\* numeric order, so that under page-level processing the page treated as
\* the invoice's last page is the highest-numbered page of the group.
C22_GroupsAscending ==
    Grouped =>
        \A g \in DOMAIN result.out :
            Ascending(result.out[g].pages) /\ LastIsHighest(result.out[g].pages)

\* what does hold: the pages of a group are in the order the spec names them
C22_GroupsInSpecOrder ==
    Grouped =>
        \A g \in DOMAIN result.out :
            \A i, j \in DOMAIN result.out[g].pages :
                i < j =>
                    \E a, b \in DOMAIN llmCalls :
                        /\ a < b
                        /\ llmCalls[a].pages = <<result.out[g].pages[i]>>
                        /\ llmCalls[b].pages = <<result.out[g].pages[j]>>

\* C23: for every pages spec (including specs that name a page more than
\* once, such as '3-5,4') and every outcome of the per-page classification
\* calls, each page number occurs at most once over all invoice groups: no
\* page belongs to two groups, no page is listed twice in one group, and
\* every grouped page is a page of the document.
C23_EachPageOnce ==
    Grouped =>
        /\ \A g, h \in DOMAIN result.out :
              \A i \in DOMAIN result.out[g].pages, j \in DOMAIN result.out[h].pages :
                  result.out[g].pages[i] = result.out[h].pages[j] => (g = h /\ i = j)
        /\ \A g \in DOMAIN result.out :
              \A i \in DOMAIN result.out[g].pages :
                  PageInt(result.out[g].pages[i]) \in 1..env.total_pages

\* what does hold: every grouped page is a page of the document
C23_PagesOfDocument ==
    Grouped =>
        \A g \in DOMAIN result.out :
            \A i \in DOMAIN result.out[g].pages :
                PageInt(result.out[g].pages[i]) \in 1..env.total_pages

\* the extraction stage has handed over collections built at page level
AfterPageLevel == pc = "merge_invoice_data" /\ ProcessingLevel(ctx) = "page"

\* C24: under page-level processing, on both the text and the vision path,
\* for an invoice with pages p1..pk exactly one extraction call is issued per
\* page, one at a time in that order, and the call issued for page pi carries
\* the content of page pi only, not the content of any earlier page of the
\* invoice.
C24_OneCallPerPageAlone ==
    AfterPageLevel =>
        \A i \in DOMAIN ctx.invoice_collections :
            /\ Len(PartCalls(ctx.invoice_collections[i].inv))
                  = Len(ctx.invoice_collections[i].pages)
            /\ \A j \in DOMAIN PartCalls(ctx.invoice_collections[i].inv) :
                  PartCalls(ctx.invoice_collections[i].inv)[j].pages
                      = <<ctx.invoice_collections[i].pages[j]>>

\* what does hold: one call per page, in page order, the page of the call
\* being the last one it carries; on the text path it is the only one
C24_OneCallPerPage ==
    AfterPageLevel =>
        \A i \in DOMAIN ctx.invoice_collections :
            /\ Len(PartCalls(ctx.invoice_collections[i].inv))
                  = Len(ctx.invoice_collections[i].pages)
            /\ \A j \in DOMAIN PartCalls(ctx.invoice_collections[i].inv) :
                  /\ PartCalls(ctx.invoice_collections[i].inv)[j].pages
                        = SubSeq(ctx.invoice_collections[i].pages, 1, j)
                     \/ PartCalls(ctx.invoice_collections[i].inv)[j].pages
                        = <<ctx.invoice_collections[i].pages[j]>>
                  /\ PartCalls(ctx.invoice_collections[i].inv)[j].kind = "extract_page"
                        => PartCalls(ctx.invoice_collections[i].inv)[j].pages
                              = <<ctx.invoice_collections[i].pages[j]>>

\* the fields the extraction stage fills from the context
CodeFields == {"supplier_country_code", "buyer_country_code", "ship_to_country_code",
               "region"}

\* the context's resolved value of the field
ResolvedValue(f) ==
    CASE f = "supplier_country_code" -> ctx.supplier_country_code
      [] f = "buyer_country_code" -> ctx.buyer_country_code
      [] f = "ship_to_country_code" -> ctx.ship_to_country_code
      [] OTHER -> ctx.region

\* a stored call of the invoice extracted a non-empty value for the field
ExtractedValues(e, f) ==
    {StoredValue(ExtractCallsOf(e.inv)[n], f) :
        n \in {m \in DOMAIN ExtractCallsOf(e.inv) :
                  /\ Stored(ExtractCallsOf(e.inv)[m])
                  /\ Truthy(StoredValue(ExtractCallsOf(e.inv)[m], f))}}

\* C25: after the extraction stage, at page level and at invoice level, for
\* every invoice and for each of supplier country code, buyer country code,
\* ship-to country code and region: a header that holds no value for the
\* field (field absent, or extracted as null or empty) receives the
\* context's resolved value whenever that value is non-null, and a non-empty
\* value already extracted into the header is never overwritten.
C25_CodesFilledNotOverwritten ==
    pc = "merge_invoice_data" =>
        \A i \in DOMAIN ctx.invoice_collections : \A f \in CodeFields :
            /\ (ExtractedValues(ctx.invoice_collections[i], f) = {}
                  /\ ResolvedValue(f) # None)
                  => Get(ctx.invoice_collections[i].header, f) = ResolvedValue(f)
            /\ ExtractedValues(ctx.invoice_collections[i], f) # {}
                  => Get(ctx.invoice_collections[i].header, f)
                        \in ExtractedValues(ctx.invoice_collections[i], f)

\* what does hold: a field the header has no key for receives the context's
\* value when that is truthy, and an extracted value is never overwritten
C25_AbsentFilledNotOverwritten ==
    pc = "merge_invoice_data" =>
        \A i \in DOMAIN ctx.invoice_collections : \A f \in CodeFields :
            /\ (ExtractedValues(ctx.invoice_collections[i], f) = {}
                  /\ Truthy(ResolvedValue(f))
                  /\ f \notin ctx.invoice_schema.props)
                  => Get(ctx.invoice_collections[i].header, f) = ResolvedValue(f)
            /\ ExtractedValues(ctx.invoice_collections[i], f) # {}
                  => Get(ctx.invoice_collections[i].header, f)
                        \in ExtractedValues(ctx.invoice_collections[i], f)

\* ExtractCountryCodes has handed over to an extraction stage
HandedToExtraction ==
    /\ \E n \in DOMAIN trace : trace[n] = "extract_country_codes"
    /\ \E n \in DOMAIN trace :
          /\ trace[n] = "extract_country_codes"
          /\ IF n = Len(trace)
             THEN pc \in {"extract_invoice_data", "extract_invoice_data_image"}
             ELSE trace[n + 1] \in {"extract_invoice_data", "extract_invoice_data_image"}

\* C26: every run in which ExtractCountryCodes hands over to an extraction
\* stage has attempted the 'Received' checkpoint write during
\* ExtractCountryCodes, also when the country-code LLM call failed and the
\* region-table fallback was used, and no 'Processing' checkpoint write is
\* attempted in a run before its 'Received' write.
C26_ReceivedBeforeProcessing ==
    /\ HandedToExtraction => \E n \in DOMAIN ckpts : ckpts[n].kind = "Received"
    /\ \A n \in DOMAIN ckpts :
          ckpts[n].kind = "Processing"
              => \E m \in 1..(n - 1) : ckpts[m].kind = "Received"

\* the country-code call of the run answered
CountryCallAnswered ==
    \E n \in DOMAIN llmCalls : llmCalls[n].kind = "country" /\ llmCalls[n].resp # "raise"

\* what does hold: the same for the runs whose country-code call answered
C26_ReceivedWhenCodesExtracted ==
    /\ (HandedToExtraction /\ CountryCallAnswered)
          => \E n \in DOMAIN ckpts : ckpts[n].kind = "Received"
    /\ \A n \in DOMAIN ckpts :
          (ckpts[n].kind = "Processing" /\ CountryCallAnswered)
              => \E m \in 1..(n - 1) : ckpts[m].kind = "Received"

\* C27: all checkpoint writes of one run (the 'Received' insert, the
\* 'Processing' update, the 'Failed' update and the final 'Extracted'
\* update) are keyed by the same record identifier, also when the request
\* carries no transaction id, so that every update of a run addresses the
\* record its 'Received' insert created.
C27_OneRecordIdentifier ==
    \A n, m \in DOMAIN ckpts : ckpts[n].key = ckpts[m].key

\* what does hold: the writes of a request that carries a transaction id
\* are all keyed by that id
C27_KeyedByTransactionId ==
    req.transaction_id # "" =>
        \A n \in DOMAIN ckpts : ckpts[n].key = req.transaction_id

(***************************************************************************)
(* The invoice level on one invoice group: the group's pages and the       *)
(* request's processing_max_pages drawn, the calls of the stage kept.      *)
(***************************************************************************)
MaxBatchPages == 4

MaxPerBatch == 3

\* the page lists of a group: distinct pages of the document in any order
GroupPageLists ==
    {ps \in UNION {[1..k -> 1..MaxBatchPages] : k \in 1..MaxBatchPages} :
        \A i, j \in DOMAIN ps : i # j => ps[i] # ps[j]}

InitBatches ==
    /\ \E m \in 0..MaxPerBatch :
          req = [BaseRequest EXCEPT !.processing_level = "invoice",
                                    !.processing_max_pages = PyInt(m)]
    /\ env = [Env(TRUE, "full") EXCEPT !.total_pages = MaxBatchPages]
    /\ ctx = parse_message(InitialState(req)).ctx
    /\ \E ps \in GroupPageLists :
          result = Returned(<<[inv |-> "INV-1", pages |-> SeqMap(PageStr, ps)]>>)
    /\ pc = "grouped"
    /\ trace = <<>>
    /\ llmCalls = <<>>
    /\ ckpts = <<>>

\* the invoice-level loop of extract_invoice_data over the group
ExtractTextInvoices ==
    /\ pc = "grouped"
    /\ \E a \in {"R3", "raise"} :
          llmCalls' = InvoiceLevel(result.out, InvoiceAcc(<<>>, "invoice", <<>>, 1),
                                   ctx.processing_max_pages, FullSchema,
                                   [i \in 1..MaxBatchPages |-> a]).calls
    /\ pc' = "text_invoices"
    /\ UNCHANGED <<req, env, ctx, trace, ckpts, result>>

\* the invoice-level loop of extract_invoice_data_image over the group
ExtractImageInvoices ==
    /\ pc = "grouped"
    /\ \E a \in {"R3", "raise"} :
          llmCalls' = ImageInvoiceLevel(result.out, InvoiceAcc(<<>>, "invoice", <<>>, 1),
                                        [i \in 1..MaxBatchPages |-> a]).calls
    /\ pc' = "image_invoices"
    /\ UNCHANGED <<req, env, ctx, trace, ckpts, result>>

NextBatches == ExtractTextInvoices \/ ExtractImageInvoices

SpecBatches == InitBatches /\ [][NextBatches]_vars

\* the pages of the calls, one call after the other
PagesSent == FoldLeft(LAMBDA sent, c : sent \o c.pages, <<>>, llmCalls)

\* the pages of the group
GroupSize == Len(result.out[1].pages)

\* the calls are what the split of the group into batches of at most m pages
\* asks for
SplitInto(m) ==
    /\ Len(PagesSent) = GroupSize
    /\ Range(PagesSent) = Range(result.out[1].pages)
    /\ \A i, j \in DOMAIN PagesSent :
          i < j => PageInt(PagesSent[i]) < PageInt(PagesSent[j])
    /\ IF m > 0 /\ GroupSize > m
       THEN /\ Len(llmCalls) = CeilDiv(GroupSize, m)
            /\ \A b \in DOMAIN llmCalls : Len(llmCalls[b].pages) \in 1..m
       ELSE Len(llmCalls) = 1

\* C28: under processingLevel = 'invoice' with maxPagesPerBatch = m > 0 and
\* an invoice group of n > m pages, on both the text and the vision path,
\* the group's pages in ascending order are split into ceil(n/m) consecutive
\* batches of at most m pages each, every page lies in exactly one batch,
\* and exactly one extraction call is issued per batch, in batch order; with
\* m = 0 or n <= m exactly one call covers all n pages.
C28_SplitIntoBatches ==
    pc \in {"text_invoices", "image_invoices"} => SplitInto(ctx.processing_max_pages)

\* what does hold: the text path splits the group so, and the vision path
\* sends all pages of the group in one call whatever m is
C28_TextSplitVisionWhole ==
    /\ pc = "text_invoices" => SplitInto(ctx.processing_max_pages)
    /\ pc = "image_invoices" => SplitInto(0)
(***************************************************************************)
(* The merge stage entered on its own: with each context the text          *)
(* extraction stage hands to it, with the same context less its schema,    *)
(* and with the context extraction started from.                           *)
(***************************************************************************)
ExtractedContexts ==
    LET c == LocatedContext("text")
        handed == {extract_invoice_data(c, o, Registry("full"), MaxPages) :
                      o \in ExtractOracles(StagePages("extract_invoice_data", c, MaxPages),
                                           ProcessingLevel(c))}
    IN {r.ctx : r \in {x \in handed : x.goto = "merge_invoice_data"}}

WithoutSchema(c) == [c EXCEPT !.invoice_schema = NoSchema]

MergeContexts ==
    ExtractedContexts \cup {WithoutSchema(c) : c \in ExtractedContexts}
        \cup {LocatedContext("text")}

InitMerge ==
    /\ req = BaseRequest
    /\ env = Env(TRUE, "full")
    /\ pc = "merge_invoice_data"
    /\ ctx \in MergeContexts
    /\ trace = <<>>
    /\ llmCalls = <<>>
    /\ ckpts = <<>>
    /\ result = NoResult

NextMerge ==
    \/ MergeInvoiceData
    \/ PrepareResponse
    \/ HandleError

SpecMerge == InitMerge /\ [][NextMerge]_vars

\* merge_invoice_data has run on a context with collections and no schema
MergedWithoutSchema ==
    /\ trace = <<"merge_invoice_data">>
    /\ ctx.invoice_collections # <<>>
    /\ ~ctx.invoice_schema.present

\* C29: when merge_invoice_data is entered with non-empty invoice collections
\* and no schema in the context, it produces no merged record, sets status
\* 'error' with an error string in the context and goes on to handle_error.
C29_MissingSchemaIsAnError ==
    MergedWithoutSchema =>
        /\ ~ctx.invoice_data.present
        /\ ctx.status = "error"
        /\ ctx.error # ""
        /\ pc = "handle_error"

\* what does hold: no merged record is produced, but the stage is left by an
\* exception (the name ResourceNotFoundError is bound nowhere), the context
\* is as it was on entry and handle_error is not the next stage
C29_MissingSchemaRaises ==
    MergedWithoutSchema =>
        /\ ~ctx.invoice_data.present
        /\ ctx.status # "error"
        /\ pc = "raised"
(***************************************************************************)
(* The prompt registry of the invoice API: create_prompt_registry_item     *)
(* called by concurrent requests of one server process.  Every statement   *)
(* between the connection and the commit is a blocking pyodbc call with no *)
(* await in between, so the event loop can pass from one request to        *)
(* another only at the awaits: before each lookup, before the connection   *)
(* and after the commit.  pc[c] is the position of call c, req[c] its      *)
(* request, result[c] the id of the row it created (0: none), ctx the rows *)
(* of prompt_registry, env the active country codes of regions_countries,  *)
(* trace the connections and commits in the order they happened.           *)
(***************************************************************************)
MaxRegistryCalls == 3

RegistryCalls == 1..MaxRegistryCalls

RegistryBrands == {"acme", "default"}

RegistryCountries == {<<"u", "s">>, US, <<"Z", "Z">>}

RegistryMethods == {"text", "image"}

CreateRequests ==
    [brandName : RegistryBrands, countryCode : RegistryCountries,
     processingMethod : RegistryMethods]

InitRegistry ==
    /\ pc = [c \in RegistryCalls |-> "start"]
    /\ req \in [RegistryCalls -> CreateRequests]
    /\ result = [c \in RegistryCalls |-> 0]
    /\ ctx = <<>>
    /\ env = {US}
    /\ trace = <<>>
    /\ llmCalls = <<>>
    /\ ckpts = <<>>

\* the parameters of the three statements: brandName, countryCode.upper(),
\* processingMethod
RequestKey(request) ==
    <<request.brandName, Upper(request.countryCode), request.processingMethod>>

RowKey(row) == <<row.brand_name, row.country_code, row.processing_method>>

\* the ids existing_check_query selects; fetchone() takes one of them
ExistingActiveIds(table, request) ==
    {table[i].id : i \in {j \in DOMAIN table :
                             RowKey(table[j]) = RequestKey(request) /\ table[j].is_active}}

\* ISNULL(MAX(version), 0) + 1 over the rows of the combination
NextVersion(table, request) ==
    LET versions == {table[i].version :
                        i \in {j \in DOMAIN table : RowKey(table[j]) = RequestKey(request)}}
    IN IF versions = {} THEN 1
       ELSE (CHOOSE v \in versions : \A w \in versions : w <= v) + 1

\* a deactivation that changes nothing
DeactivateNothing(table, existing_id) == table

\* UPDATE prompt_registry SET is_active = 0 WHERE id = existing_id; id 0
\* stands for no existing active entry
DeactivateExisting(table, existing_id) ==
    [i \in DOMAIN table |->
        IF existing_id # 0 /\ table[i].id = existing_id
        THEN [table[i] EXCEPT !.is_active = FALSE]
        ELSE table[i]]

\* INSERT INTO prompt_registry (..., is_active, version, ...) VALUES (..., 1, ?, ...)
InsertActive(table, request, version) ==
    Append(table, [id |-> Len(table) + 1,
                   brand_name |-> request.brandName,
                   country_code |-> Upper(request.countryCode),
                   processing_method |-> request.processingMethod,
                   is_active |-> TRUE,
                   version |-> version])

\* the statements of one call from the check to the commit
create_prompt_registry_item(table, request, existing_id) ==
    InsertActive(DeactivateExisting(table, existing_id), request,
                 NextVersion(table, request))

\* get_region_info_by_country: 404 for a country regions_countries lacks
GetRegionInfo(c) ==
    /\ pc[c] = "start"
    /\ pc' = [pc EXCEPT ![c] = IF Upper(req[c].countryCode) \in env
                                THEN "region" ELSE "failed"]
    /\ UNCHANGED <<req, env, ctx, trace, llmCalls, ckpts, result>>

\* get_country_name_by_code
GetCountryName(c) ==
    /\ pc[c] = "region"
    /\ pc' = [pc EXCEPT ![c] = IF Upper(req[c].countryCode) \in env
                                THEN "named" ELSE "failed"]
    /\ UNCHANGED <<req, env, ctx, trace, llmCalls, ckpts, result>>

\* get_connection
GetConnection(c) ==
    /\ pc[c] = "named"
    /\ \E db \in {"ok", "raise"} :
          /\ pc' = [pc EXCEPT ![c] = IF db = "ok" THEN "connected" ELSE "failed"]
          /\ trace' = IF db = "ok" THEN Append(trace, <<c, "connected">>) ELSE trace
    /\ UNCHANGED <<req, env, ctx, llmCalls, ckpts, result>>

\* the check, the version, the deactivation, the insert and the commit; an
\* exception on the way rolls everything back
CreateRow(c) ==
    /\ pc[c] = "connected"
    /\ \E db \in {"ok", "raise"} :
          IF db = "ok"
          THEN \E existing_id \in IF ExistingActiveIds(ctx, req[c]) = {} THEN {0}
                                  ELSE ExistingActiveIds(ctx, req[c]) :
                  /\ ctx' = create_prompt_registry_item(ctx, req[c], existing_id)
                  /\ result' = [result EXCEPT ![c] = Len(ctx) + 1]
                  /\ pc' = [pc EXCEPT ![c] = "committed"]
                  /\ trace' = Append(trace, <<c, "committed">>)
          ELSE /\ pc' = [pc EXCEPT ![c] = "failed"]
               /\ UNCHANGED <<ctx, result, trace>>
    /\ UNCHANGED <<req, env, llmCalls, ckpts>>

\* get_prompt_by_id of the created row, after the commit
GetCreated(c) ==
    /\ pc[c] = "committed"
    /\ \E db \in {"ok", "raise"} :
          pc' = [pc EXCEPT ![c] = IF db = "ok" THEN "returned" ELSE "failed"]
    /\ UNCHANGED <<req, env, ctx, trace, llmCalls, ckpts, result>>

NextRegistry ==
    \/ \E c \in RegistryCalls : GetRegionInfo(c)
    \/ \E c \in RegistryCalls : GetCountryName(c)
    \/ \E c \in RegistryCalls : GetConnection(c)
    \/ \E c \in RegistryCalls : CreateRow(c)
    \/ \E c \in RegistryCalls : GetCreated(c)

SpecRegistry == InitRegistry /\ [][NextRegistry]_vars

\* the active rows the lookup of the extraction pipeline selects for a
\* country code, a brand name and a processing method
ActiveFor(table, key) ==
    {i \in DOMAIN table : RowKey(table[i]) = key /\ table[i].is_active}

RegistryKeys == {RequestKey(r) : r \in CreateRequests}

Overlapped(a, b) ==
    \E i, j, k \in DOMAIN trace :
        /\ i < j /\ j < k
        /\ trace[i] = <<a, "connected">>
        /\ trace[j] = <<b, "committed">>
        /\ trace[k] = <<a, "committed">>

=============================================================================
